---- MODULE Spec2Model ----
(***************************************************************************)
(* A model of the operations shell of logfile-hotswap (src/src/cli):      *)
(*   - the discovery coordinator (discovery/coordinator.py),              *)
(*   - the update-info tree (shell/update_info_node.py),                  *)
(*   - the command pipeline (shell/pipeline.py),                          *)
(*   - the prompt loops (shell/shell.py, views/simple_view.py).           *)
(* Each component has its own specification over the shared variables;    *)
(* the variables of the other components stay at their idle values.       *)
(***************************************************************************)
EXTENDS Integers, Sequences, FiniteSets, TLC

VARIABLES
    \* ---- discovery coordinator ----
    dependencies,    \* plugin name -> list returned by get_dependencies()
    parallel,        \* DiscoveryCoordinator.parallel
    max_workers,     \* DiscoveryCoordinator.max_workers
    d_pc,            \* position of run_discovery
    plugin_names,    \* the plugin_names argument of the current call
    plugins_to_run,  \* result of _resolve_dependencies
    levels,          \* the dependency levels (parallel mode)
    level_idx,       \* index of the level being run / next plugin in sequential mode
    pool_size,       \* max_workers of the level's ThreadPoolExecutor
    pstate,          \* plugin name -> state of its discover call in this run
    collected,       \* futures already yielded by as_completed in this level
    level_results,   \* keys of level_results
    results,         \* keys of results
    d_error,         \* the exception run_discovery raised
    returned_at_start, \* plugin -> plugins whose discover had returned when it began
    calls,           \* plugin -> number of discover calls in this run
    \* ---- update-info tree ----
    nodes,           \* the UpdateInfoNode objects, in creation order
    clock,           \* time.time()
    api_calls,       \* number of node methods called directly by a client
    \* ---- pipeline ----
    p_pc,            \* position of Pipeline.execute
    command_str,     \* the command_str argument of the current call
    root_node,       \* Pipeline.root_node
    current_node,    \* Pipeline.current_node
    cmd_outcome,     \* what the dispatched command's execute did
    p_raised,        \* the exception Pipeline.execute raised
    execute_command_calls, \* execute_command invocations in this dispatch
    \* ---- prompt loops ----
    host,            \* which loop runs: ServerShell.run or SimpleView.run
    running,         \* self.running
    sh_pc,           \* position of run()
    lines_read,      \* number of session.prompt calls
    last_input,      \* what the last session.prompt call gave
    sh_error,        \* the exception the loop printed for the last line
    last_event,      \* how the last session.prompt call ended
    exit_code        \* what main() returned

VARIABLES
    \* ---- variable manager ----
    vm_table,        \* VariableManager._variables: name -> object held (0: no binding)
    vm_heap,         \* the objects the table and the evaluator refer to
    vm_last,         \* the last call on the manager and how it ended
    vm_calls         \* number of calls made on the manager

discVars == <<dependencies, parallel, max_workers, d_pc, plugin_names, plugins_to_run,
              levels, level_idx, pool_size, pstate, collected, level_results, results,
              d_error, returned_at_start, calls>>

nodeVars == <<nodes, clock, api_calls>>

pipeVars == <<p_pc, command_str, root_node, current_node, cmd_outcome, p_raised,
              execute_command_calls>>

shellVars == <<host, running, sh_pc, lines_read, last_input, sh_error, last_event, exit_code>>

VARIABLES
    \* ---- config store and endpoints ----
    store_systems,   \* ConfigStore.systems: key -> ConfigSystem
    tg_pc,           \* the connect or disconnect call in progress
    tg_last,         \* the last call on the store or an endpoint and how it ended
    tg_calls         \* number of calls made

VARIABLES
    \* ---- declarative command: parameters and one dispatch ----
    param_decls,     \* the parameters the command class declares, in order
    param_defs,      \* what get_parameter_definitions returned
    dc_args,         \* shlex.split(args_str)
    dc_path,         \* the dispatcher: DeclarativeCommand.execute or CommandHandler.execute
    dc_pc,           \* position inside the dispatch
    dc_parse,        \* how cls.parse(args) ended
    dc_calls,        \* invocations of execute_command
    dc_result        \* what the dispatcher returned or raised

VARIABLES
    \* ---- script parser ----
    ps_text,         \* the script: lines with their indentation
    ps_tokens,       \* Parser.tokens
    ps_pos,          \* Parser.pos
    ps_pc,           \* "loop", "returned" or "raised"
    ps_iterations    \* iterations of the while loop of Parser.parse

VARIABLES
    \* ---- code block ----
    cb_statements,   \* CodeBlock.statements: how many statements the block holds
    cb_block_type,   \* CodeBlock.block_type
    cb_pc,           \* position inside CodeBlock.execute
    cb_i,            \* the statement the for loop is at
    cb_started,      \* the statements whose execute was called, in call order
    cb_returns,      \* what the calls returned, in return order
    cb_result        \* the local variable result, and what execute returned

VARIABLES
    \* ---- expand_variables ----
    ex_text,         \* the text given to expand_variables, character by character
    ex_pc,           \* "idle" or "returned"
    ex_result        \* the text returned

VARIABLES
    \* ---- view manager ----
    vw_current,      \* ViewManager.current_view, a view name or None
    vw_history,      \* ViewManager.view_history
    vw_instances,    \* keys of ViewManager.instances
    vw_calls,        \* switch_to and go_back calls made
    vw_last          \* the last switch_to call: state at its entry and its result

VARIABLES
    \* ---- lexer ----
    lx_text,         \* the lines of Lexer.text, each with its indentation
    lx_line,         \* the line the for loop of tokenize is at, from 1
    lx_stack,        \* Lexer.indent_stack
    lx_result,       \* result, the tokens made so far
    lx_pc            \* "lines", "returned" or "raised"

vmVars == <<vm_table, vm_heap, vm_last, vm_calls>>

\* the shell core
coreVars == <<discVars, nodeVars, pipeVars, shellVars>>

\* the components around the shell core
storeVars == <<store_systems, tg_pc, tg_last, tg_calls>>

declVars ==
    <<param_decls, param_defs, dc_args, dc_path, dc_pc, dc_parse, dc_calls, dc_result>>

parserVars == <<ps_text, ps_tokens, ps_pos, ps_pc, ps_iterations>>

blockVars == <<cb_statements, cb_block_type, cb_pc, cb_i, cb_started, cb_returns, cb_result>>

expandVars == <<ex_text, ex_pc, ex_result>>

viewVars == <<vw_current, vw_history, vw_instances, vw_calls, vw_last>>

lexVars == <<lx_text, lx_line, lx_stack, lx_result, lx_pc>>

extVars == <<vmVars, storeVars, declVars, parserVars, blockVars, expandVars, viewVars, lexVars>>

vars == <<coreVars, extVars>>

----------------------------------------------------------------------------
(* Generic helpers *)

None == "None"

Range(s) == {s[i] : i \in DOMAIN s}

BoundedSeq(S, n) == UNION {[1..k -> S] : k \in 0..n}

Min(a, b) == IF a <= b THEN a ELSE b

\* list.remove(x) when x is in the list: drops the first occurrence only
RemoveFirst(s, x) ==
    IF \E i \in DOMAIN s : s[i] = x
    THEN LET i == CHOOSE i \in DOMAIN s : s[i] = x /\ \A j \in 1..(i-1) : s[j] # x
         IN SubSeq(s, 1, i-1) \o SubSeq(s, i+1, Len(s))
    ELSE s

\* the keys of a dict filled by iterating over s: first occurrences, in order
RECURSIVE FirstOccurrences(_)
FirstOccurrences(s) ==
    IF s = <<>> THEN <<>>
    ELSE LET init == FirstOccurrences(SubSeq(s, 1, Len(s)-1))
         IN IF s[Len(s)] \in Range(init) THEN init ELSE Append(init, s[Len(s)])

----------------------------------------------------------------------------
(* Discovery coordinator: src/src/cli/discovery/coordinator.py *)

\* Bounds of the discovery model
MaxDepDecls == 2     \* dependency declarations over all plugins
MaxSelected == 2     \* length of an explicit plugin_names list
MaxWorkersBound == 2 \* largest max_workers tried

\* self.plugins: the registered plugins, in registration order
RegisteredPlugins == <<"p1", "p2", "p3">>
Plugins == Range(RegisteredPlugins)
\* a name that is not registered
UnknownPlugin == "zz"
PluginNameUniverse == Plugins \cup {UnknownPlugin}

\* get_dependencies() of every plugin, built from a bounded list of declarations
RECURSIVE DeclaredBy(_, _)
DeclaredBy(decls, p) ==
    IF decls = <<>> THEN <<>>
    ELSE (IF Head(decls)[1] = p THEN <<Head(decls)[2]>> ELSE <<>>) \o DeclaredBy(Tail(decls), p)

DependencyTables ==
    { [p \in Plugins |-> DeclaredBy(decls, p)] : decls \in BoundedSeq(Plugins \X Plugins, MaxDepDecls) }

\* the plugin_names argument: None, or a list of names
NoSelection == [is_none |-> TRUE, names |-> <<>>]
Selections ==
    {NoSelection} \cup { [is_none |-> FALSE, names |-> s] : s \in BoundedSeq(PluginNameUniverse, MaxSelected) }

NoError == [type |-> None, msg |-> None, plugin |-> None]
DiscoveryError(msg, plugin) == [type |-> "DiscoveryError", msg |-> msg, plugin |-> plugin]
\* the exception a plugin's discover raised, as the plugin raised it
PluginException == [type |-> "PluginException", msg |-> "plugin", plugin |-> None]

\* Kahn's loop of _resolve_dependencies (lines 115-125)
RECURSIVE KahnLoop(_, _, _, _)
KahnLoop(keys, graph, no_deps, result) ==
    IF no_deps = <<>> THEN result
    ELSE LET name == Head(no_deps)
             rest == Tail(no_deps)
             result2 == Append(result, name)
             graph2 == [n \in DOMAIN graph |-> RemoveFirst(graph[n], name)]
             fresh == SelectSeq(keys, LAMBDA n : graph2[n] = <<>>
                                                  /\ n \notin Range(result2)
                                                  /\ n \notin Range(rest))
         IN KahnLoop(keys, graph2, rest \o fresh, result2)

\* line 108: the dependencies of name that are in plugins_to_run
GraphEntry_unfiltered(name, to_run) == dependencies[name]
GraphEntry_ignored(name, to_run) == <<>>
GraphEntry(name, to_run) ==
    SelectSeq(dependencies[name], LAMBDA dep : dep \in Range(to_run))

\* line 128: the check for circular dependencies
CircularCheck_missing(result, keys) == FALSE
CircularCheck(result, keys) == Len(result) # Len(keys)

\* _resolve_dependencies(plugin_names): [error, order]
ResolveDependencies(sel) ==
    LET to_run == IF sel.is_none THEN RegisteredPlugins ELSE sel.names
        unknown == {i \in DOMAIN to_run : to_run[i] \notin Plugins}
    IN IF unknown # {}
       THEN LET i == CHOOSE i \in unknown : \A j \in unknown : i <= j
            IN [error |-> DiscoveryError("not_found", to_run[i]), order |-> <<>>]
       ELSE LET keys == FirstOccurrences(to_run)
                graph == [n \in Range(keys) |-> GraphEntry(n, to_run)]
                no_deps == SelectSeq(keys, LAMBDA n : graph[n] = <<>>)
                result == KahnLoop(keys, graph, no_deps, <<>>)
            IN IF CircularCheck(result, keys)
               THEN [error |-> DiscoveryError("circular", None), order |-> <<>>]
               ELSE [error |-> NoError, order |-> result]

\* lines 160-173: the levels of the plugins in `remaining`; an empty level marks
\* "Unable to resolve plugin execution order"
RECURSIVE LevelsOf(_)
LevelsOf(remaining) ==
    IF remaining = {} THEN <<>>
    ELSE LET current_level == {name \in remaining : Range(dependencies[name]) \cap remaining = {}}
         IN IF current_level = {} THEN <<{}>>
            ELSE <<current_level>> \o LevelsOf(remaining \ current_level)

\* line 179: max_workers of the level's thread pool
LevelPoolSize_unbounded(level) == Cardinality(level)
LevelPoolSize(level) == Min(Cardinality(level), max_workers)

Running == {p \in Plugins : pstate[p] = "running"}
Finished == {p \in Plugins : pstate[p] \in {"returned", "raised"}}
Started == Running \cup Finished

\* the discovery actions leave the other components alone
DiscFrame == UNCHANGED <<nodeVars, pipeVars, shellVars, extVars>>

DiscInit ==
    /\ dependencies \in DependencyTables
    /\ parallel \in BOOLEAN
    /\ max_workers \in 1..MaxWorkersBound
    /\ d_pc = "idle"
    /\ plugin_names = NoSelection
    /\ plugins_to_run = <<>>
    /\ levels = <<>>
    /\ level_idx = 0
    /\ pool_size = 0
    /\ pstate = [p \in Plugins |-> "idle"]
    /\ collected = {}
    /\ level_results = {}
    /\ results = {}
    /\ d_error = NoError
    /\ returned_at_start = [p \in Plugins |-> {}]
    /\ calls = [p \in Plugins |-> 0]

\* the coordinator as ServerShell builds it by default, never called
DiscIdle ==
    /\ dependencies = [p \in Plugins |-> <<>>]
    /\ parallel = TRUE
    /\ max_workers = 5
    /\ d_pc = "idle"
    /\ plugin_names = NoSelection
    /\ plugins_to_run = <<>>
    /\ levels = <<>>
    /\ level_idx = 0
    /\ pool_size = 0
    /\ pstate = [p \in Plugins |-> "idle"]
    /\ collected = {}
    /\ level_results = {}
    /\ results = {}
    /\ d_error = NoError
    /\ returned_at_start = [p \in Plugins |-> {}]
    /\ calls = [p \in Plugins |-> 0]

\* run_discovery is called (lines 148-173): resolve, then enter one of the two loops.
\* One call is followed per behaviour: a call reads nothing an earlier call wrote.
RunDiscovery(sel) ==
    /\ DiscFrame
    /\ d_pc = "idle"
    /\ plugin_names' = sel
    /\ pstate' = [p \in Plugins |-> "idle"]
    /\ collected' = {}
    /\ level_results' = {}
    /\ results' = {}
    /\ returned_at_start' = [p \in Plugins |-> {}]
    /\ calls' = [p \in Plugins |-> 0]
    /\ pool_size' = 0
    /\ level_idx' = 1
    /\ LET r == ResolveDependencies(sel)
       IN IF r.error # NoError
          THEN /\ d_pc' = "raised"
               /\ d_error' = r.error
               /\ plugins_to_run' = <<>>
               /\ levels' = <<>>
          ELSE /\ plugins_to_run' = r.order
               /\ IF parallel /\ Len(r.order) > 1
                  THEN LET lv == LevelsOf(Range(r.order))
                       IN IF \E i \in DOMAIN lv : lv[i] = {}
                          THEN /\ d_pc' = "raised"
                               /\ d_error' = DiscoveryError("unable_to_resolve", None)
                               /\ levels' = <<>>
                          ELSE /\ d_pc' = "level"
                               /\ d_error' = NoError
                               /\ levels' = lv
                  ELSE /\ d_pc' = "sequential"
                       /\ d_error' = NoError
                       /\ levels' = <<>>
    /\ UNCHANGED <<dependencies, parallel, max_workers>>

\* plugin.discover is entered (line 220)
BeginDiscover(p) ==
    /\ pstate' = [pstate EXCEPT ![p] = "running"]
    /\ returned_at_start' = [returned_at_start EXCEPT ![p] = Finished]
    /\ calls' = [calls EXCEPT ![p] = @ + 1]

\* sequential loop, lines 197-198: the next plugin's discover begins
SeqStart ==
    /\ DiscFrame
    /\ d_pc = "sequential"
    /\ level_idx <= Len(plugins_to_run)
    /\ pstate[plugins_to_run[level_idx]] = "idle"
    /\ BeginDiscover(plugins_to_run[level_idx])
    /\ UNCHANGED <<dependencies, parallel, max_workers, d_pc, plugin_names, plugins_to_run,
                   levels, level_idx, pool_size, collected, level_results, results, d_error>>

\* sequential loop: discover returns and its result is stored
SeqReturn ==
    /\ DiscFrame
    /\ d_pc = "sequential"
    /\ level_idx <= Len(plugins_to_run)
    /\ pstate[plugins_to_run[level_idx]] = "running"
    /\ pstate' = [pstate EXCEPT ![plugins_to_run[level_idx]] = "returned"]
    /\ results' = results \cup {plugins_to_run[level_idx]}
    /\ level_idx' = level_idx + 1
    /\ UNCHANGED <<dependencies, parallel, max_workers, d_pc, plugin_names, plugins_to_run,
                   levels, pool_size, collected, level_results, d_error,
                   returned_at_start, calls>>

\* sequential loop: discover raises; _run_single_plugin re-raises (line 225) and
\* nothing in run_discovery catches it
SeqRaise ==
    /\ DiscFrame
    /\ d_pc = "sequential"
    /\ level_idx <= Len(plugins_to_run)
    /\ pstate[plugins_to_run[level_idx]] = "running"
    /\ pstate' = [pstate EXCEPT ![plugins_to_run[level_idx]] = "raised"]
    /\ d_pc' = "raised"
    /\ d_error' = PluginException
    /\ UNCHANGED <<dependencies, parallel, max_workers, plugin_names, plugins_to_run,
                   levels, level_idx, pool_size, collected, level_results, results,
                   returned_at_start, calls>>

\* line 200 after either loop
ReturnResults ==
    /\ DiscFrame
    /\ \/ d_pc = "sequential" /\ level_idx > Len(plugins_to_run)
       \/ d_pc = "level" /\ level_idx > Len(levels)
    /\ d_pc' = "returned"
    /\ UNCHANGED <<dependencies, parallel, max_workers, plugin_names, plugins_to_run,
                   levels, level_idx, pool_size, pstate, collected, level_results, results,
                   d_error, returned_at_start, calls>>

\* lines 177-183: a pool is created for the level and every plugin is submitted
SubmitLevel ==
    /\ DiscFrame
    /\ d_pc = "level"
    /\ level_idx <= Len(levels)
    /\ pool_size' = LevelPoolSize(levels[level_idx])
    /\ pstate' = [p \in Plugins |-> IF p \in levels[level_idx] THEN "queued" ELSE pstate[p]]
    /\ collected' = {}
    /\ level_results' = {}
    /\ d_pc' = "as_completed"
    /\ UNCHANGED <<dependencies, parallel, max_workers, plugin_names, plugins_to_run,
                   levels, level_idx, results, d_error, returned_at_start, calls>>

\* a pool thread takes a queued work item and enters discover; the pool has
\* pool_size threads, each running one item at a time
WorkerStart(p) ==
    /\ DiscFrame
    /\ d_pc \in {"as_completed", "shutdown"}
    /\ pstate[p] = "queued"
    /\ Cardinality(Running) < pool_size
    /\ BeginDiscover(p)
    /\ UNCHANGED <<dependencies, parallel, max_workers, d_pc, plugin_names, plugins_to_run,
                   levels, level_idx, pool_size, collected, level_results, results, d_error>>

\* discover returns or raises on its pool thread; the future is done
WorkerFinish(p, ok) ==
    /\ DiscFrame
    /\ d_pc \in {"as_completed", "shutdown"}
    /\ pstate[p] = "running"
    /\ pstate' = [pstate EXCEPT ![p] = IF ok THEN "returned" ELSE "raised"]
    /\ UNCHANGED <<dependencies, parallel, max_workers, d_pc, plugin_names, plugins_to_run,
                   levels, level_idx, pool_size, collected, level_results, results, d_error,
                   returned_at_start, calls>>

\* lines 185-191: as_completed yields a finished future; its result is stored,
\* or its exception is wrapped and raised out of the with block
Collect(p) ==
    /\ DiscFrame
    /\ d_pc = "as_completed"
    /\ p \in levels[level_idx] \ collected
    /\ pstate[p] \in {"returned", "raised"}
    /\ collected' = collected \cup {p}
    /\ IF pstate[p] = "returned"
       THEN /\ level_results' = level_results \cup {p}
            /\ UNCHANGED <<d_pc, d_error>>
       ELSE /\ d_pc' = "shutdown"
            /\ d_error' = DiscoveryError("failed", p)
            /\ UNCHANGED level_results
    /\ UNCHANGED <<dependencies, parallel, max_workers, plugin_names, plugins_to_run,
                   levels, level_idx, pool_size, pstate, results, returned_at_start, calls>>

\* lines 185-192: the as_completed loop ends once it has yielded every future of
\* the level, and only then is the with block left normally
LevelDrained_nowait == TRUE
LevelDrained == collected = levels[level_idx]

\* results.update(level_results) (line 194)
UpdateResults_replaces(all, level) == level
UpdateResults(all, level) == all \cup level

\* the with block is left normally; line 194
LevelDone ==
    /\ DiscFrame
    /\ d_pc = "as_completed"
    /\ LevelDrained
    /\ results' = UpdateResults(results, level_results)
    /\ level_idx' = level_idx + 1
    /\ d_pc' = "level"
    /\ UNCHANGED <<dependencies, parallel, max_workers, plugin_names, plugins_to_run,
                   levels, pool_size, pstate, collected, level_results, d_error,
                   returned_at_start, calls>>

\* ThreadPoolExecutor.__exit__ is shutdown(wait=True): it returns once the
\* threads have run every submitted item
ShutdownWaits_nowait == TRUE
ShutdownWaits == \A p \in levels[level_idx] : pstate[p] \in {"returned", "raised"}

\* the with block is left by the DiscoveryError (line 191)
ShutdownDone ==
    /\ DiscFrame
    /\ d_pc = "shutdown"
    /\ ShutdownWaits
    /\ d_pc' = "raised"
    /\ UNCHANGED <<dependencies, parallel, max_workers, plugin_names, plugins_to_run,
                   levels, level_idx, pool_size, pstate, collected, level_results, results,
                   d_error, returned_at_start, calls>>

DiscNext ==
    \/ \E sel \in Selections : RunDiscovery(sel)
    \/ SeqStart
    \/ SeqReturn
    \/ SeqRaise
    \/ ReturnResults
    \/ SubmitLevel
    \/ \E p \in Plugins : WorkerStart(p)
    \/ \E p \in Plugins, ok \in BOOLEAN : WorkerFinish(p, ok)
    \/ \E p \in Plugins : Collect(p)
    \/ LevelDone
    \/ ShutdownDone


----------------------------------------------------------------------------
(* Claims about the discovery coordinator *)

\* the names given to the call, and the registered plugins among them
SelectedNames == Range(IF plugin_names.is_none THEN RegisteredPlugins ELSE plugin_names.names)
SelectedPlugins == SelectedNames \cap Plugins

\* a declares b as a dependency
DependsOn(a, b) == b \in Range(dependencies[a])

\* the pairs <<a, c>> joined by a chain of dependency declarations inside S
DepEdges(S) == {e \in S \X S : DependsOn(e[1], e[2])}
RECURSIVE Chains(_, _, _)
Chains(R, C, n) ==
    IF n = 0 THEN C
    ELSE Chains(R, C \cup {<<z[1][1], z[2][2]>> : z \in {w \in C \X R : w[1][2] = w[2][1]}}, n - 1)
HasCycle(S) == \E a \in S : <<a, a>> \in Chains(DepEdges(S), DepEdges(S), Cardinality(S))

\* C1: for every selected pair where A declares B as a dependency, B's discover
\* call has returned before A's discover call begins (sequential and parallel).
C1_DependencyOrder ==
    \A a \in Started : \A b \in SelectedPlugins :
        DependsOn(a, b) => (b \in returned_at_start[a] /\ pstate[b] = "returned")

C1_Witness ==
    /\ parallel
    /\ \E a \in Started : \E b \in SelectedPlugins \ {a} : DependsOn(a, b)

\* C2: the number of discover calls that have started and not yet finished
\* never exceeds max_workers.
C2_InFlightBound == Cardinality(Running) <= max_workers

C2_Witness ==
    /\ Cardinality(Running) = max_workers
    /\ \E p \in Plugins : pstate[p] = "queued"

\* C3: in parallel mode no plugin of a level starts its discover call until every
\* plugin of all earlier levels has finished.
C3_LevelsDoNotOverlap ==
    \A i \in DOMAIN levels : \A j \in DOMAIN levels :
        i < j => \A p \in levels[j] \cap Started : levels[i] \subseteq returned_at_start[p]

C3_Witness ==
    /\ Len(levels) >= 2
    /\ \E p \in levels[2] : pstate[p] = "running"
    /\ Cardinality(levels[1]) >= 2

\* C4: whenever a plugin's discover call raises, run_discovery ends by raising a
\* DiscoveryError that identifies a failing plugin, in sequential and parallel mode.
C4_PluginFailureWrapped ==
    /\ d_pc = "returned" => \A p \in Plugins : pstate[p] # "raised"
    /\ (d_pc = "raised" /\ \E p \in Plugins : pstate[p] = "raised") =>
          /\ d_error.type = "DiscoveryError"
          /\ d_error.plugin \in Plugins
          /\ pstate[d_error.plugin] = "raised"

\* C5: if the dependency relation restricted to the selected plugins has a cycle
\* (a self-dependency included), run_discovery raises a DiscoveryError and no
\* discover is invoked; for a selection of registered plugins the error reports
\* circular dependencies.
C5_CycleRejected ==
    (d_pc # "idle" /\ HasCycle(SelectedPlugins)) =>
        /\ d_pc = "raised"
        /\ d_error.type = "DiscoveryError"
        /\ Started = {}
        /\ \A p \in Plugins : calls[p] = 0
        /\ (SelectedNames \subseteq Plugins => d_error.msg = "circular")

C5_Witness ==
    /\ d_pc = "raised"
    /\ HasCycle(SelectedPlugins)
    /\ d_error.msg = "circular"
    /\ \E a \in SelectedPlugins : \E b \in SelectedPlugins \ {a} : DependsOn(a, b) /\ DependsOn(b, a)

\* a selected plugin declares a dependency on a plugin outside the selection
OutsideDependency ==
    \E a \in SelectedPlugins : \E b \in Plugins \ SelectedNames : DependsOn(a, b)

\* a selected plugin declares the same selected plugin twice: deps.remove
\* (line 122) takes one of the two out and the plugin never becomes free
DeclaredTwiceInside ==
    \E a \in SelectedPlugins : \E i, j \in DOMAIN dependencies[a] :
        i # j /\ dependencies[a][i] = dependencies[a][j] /\ dependencies[a][i] \in SelectedPlugins

\* C22: when a selected plugin depends on a plugin that is not selected, the
\* unselected plugin is never run, run_discovery raises only for a reason
\* inside the selection (a cycle among the selected plugins or a dependency
\* inside the selection declared twice, an unregistered name, a failing
\* plugin), and the selected plugins are ordered by the dependencies inside
\* the selection.
C22_OutsideDependencyIgnored ==
    (d_pc # "idle" /\ OutsideDependency) =>
        /\ \A p \in Plugins \ SelectedPlugins : calls[p] = 0 /\ pstate[p] = "idle"
        /\ d_pc = "raised" =>
             \/ HasCycle(SelectedPlugins)
             \/ DeclaredTwiceInside
             \/ ~(SelectedNames \subseteq Plugins)
             \/ \E p \in Plugins : pstate[p] = "raised"
        /\ \A a \in Started : \A b \in SelectedPlugins \ {a} :
             DependsOn(a, b) => b \in returned_at_start[a]
        /\ d_pc = "returned" => results = SelectedPlugins

\* a run with a dependency leaving the selection and one inside it has returned
C22_Witness ==
    /\ d_pc = "returned"
    /\ OutsideDependency
    /\ \E a \in SelectedPlugins : \E b \in SelectedPlugins \ {a} : DependsOn(a, b)

\* C24: once a discover call of the run has failed, no plugin that had not
\* started is started: a step that starts a plugin is taken only while no
\* plugin has failed.
C24_NoStartAfterFailure ==
    [][\A p \in Plugins :
          (pstate[p] \in {"idle", "queued"} /\ pstate'[p] = "running") =>
              \A q \in Plugins : pstate[q] # "raised"]_vars

\* C25: when run_discovery has returned or raised, no discover call of the
\* run is executing and none is waiting for a worker: every plugin that was
\* handed to a worker has run to completion.
C25_NothingRunningAtEnd ==
    d_pc \in {"returned", "raised"} =>
        /\ Running = {}
        /\ \A p \in Plugins : pstate[p] # "queued"

\* run_discovery has raised for a failed plugin of a level in which another
\* plugin began after that failure and ran to its end
C25_Witness ==
    /\ d_pc = "raised"
    /\ d_error.msg = "failed"
    /\ \E p \in Finished : \E q \in Plugins : pstate[q] = "raised" /\ q \in returned_at_start[p]

\* C26: when run_discovery returns, every selected plugin's discover was
\* invoked exactly once, no other plugin's was invoked, and the keys of the
\* results are exactly the selected plugin names, in both modes.
C26_EachSelectedOnce ==
    d_pc = "returned" =>
        /\ \A p \in SelectedPlugins : calls[p] = 1
        /\ \A p \in Plugins \ SelectedPlugins : calls[p] = 0
        /\ results = SelectedNames

\* a parallel run of two levels has returned
C26_Witness ==
    /\ d_pc = "returned"
    /\ parallel
    /\ Len(levels) >= 2

----------------------------------------------------------------------------
(* Update-info tree: src/src/cli/shell/update_info_node.py *)

\* Bounds of the node model
MaxApiCalls == 4     \* node methods a client calls in one behaviour
MaxClock == 1        \* largest reading of time.time()

\* end_time = None (line 94), parent = None (line 76)
NoTime == -1
NoParent == 0

NoErrorInfo == [error_type |-> None, message |-> None]
ErrorInfo(error_type, message) == [error_type |-> error_type, message |-> message]

TerminalStatuses == {"completed", "failed", "cancelled"}

\* UpdateInfoNode.__init__ (lines 73-95)
NewNode(command, parent) ==
    [command |-> command, parent |-> parent, child_nodes |-> <<>>, logs |-> <<>>,
     output |-> {}, error |-> NoErrorInfo, start_time |-> clock, end_time |-> NoTime,
     status |-> "pending"]

\* the methods of node n, as updates of the node table t
NodeAddLog(t, n, level) == [t EXCEPT ![n].logs = Append(@, level)]

NodeAddOutput(t, n, key) == [t EXCEPT ![n].output = @ \cup {key}]

NodeSetError(t, n, error_type, message) ==
    [t EXCEPT ![n].error = ErrorInfo(error_type, message), ![n].status = "failed"]

NodeCreateChild(t, n, command) ==
    Append([t EXCEPT ![n].child_nodes = Append(@, Len(t) + 1)], NewNode(command, n))

NodeStart(t, n) == [t EXCEPT ![n].start_time = clock, ![n].status = "running"]

NodeComplete(t, n, success) ==
    [t EXCEPT ![n].end_time = clock,
              ![n].status = IF success THEN "completed" ELSE "failed"]

NodeCancel_resets(t, n) == [t EXCEPT ![n].end_time = clock, ![n].status = "pending"]
NodeCancel(t, n) == [t EXCEPT ![n].end_time = clock, ![n].status = "cancelled"]

NodeIds == DOMAIN nodes

NodeIdle ==
    /\ nodes = <<>>
    /\ clock = 0
    /\ api_calls = 0

\* a client holds one fresh node
NodeInit ==
    /\ clock = 0
    /\ nodes = <<NewNode(<<"root">>, NoParent)>>
    /\ api_calls = 0

NodeFrame == UNCHANGED <<discVars, pipeVars, shellVars, extVars>>

\* time passes between two calls
Tick ==
    /\ clock < MaxClock
    /\ clock' = clock + 1
    /\ UNCHANGED <<nodes, api_calls>>

\* a client calls a method of node n
ApiCall(t) ==
    /\ api_calls < MaxApiCalls
    /\ api_calls' = api_calls + 1
    /\ nodes' = t
    /\ UNCHANGED clock
    /\ NodeFrame

ApiTick == Tick /\ NodeFrame
ApiStart(n) == ApiCall(NodeStart(nodes, n))
ApiComplete(n, success) == ApiCall(NodeComplete(nodes, n, success))
ApiCancel(n) == ApiCall(NodeCancel(nodes, n))
ApiSetError(n) == ApiCall(NodeSetError(nodes, n, "RuntimeError", "message"))
ApiAddLog(n) == ApiCall(NodeAddLog(nodes, n, "INFO"))
ApiAddOutput(n) == ApiCall(NodeAddOutput(nodes, n, "key"))
ApiCreateChildNode(n) == ApiCall(NodeCreateChild(nodes, n, <<"child">>))

NodeNext ==
    \/ ApiTick
    \/ \E n \in NodeIds : ApiStart(n)
    \/ \E n \in NodeIds, success \in BOOLEAN : ApiComplete(n, success)
    \/ \E n \in NodeIds : ApiCancel(n)
    \/ \E n \in NodeIds : ApiSetError(n)
    \/ \E n \in NodeIds : ApiAddLog(n)
    \/ \E n \in NodeIds : ApiAddOutput(n)
    \/ \E n \in NodeIds : ApiCreateChildNode(n)

----------------------------------------------------------------------------
(* Commands and dispatch: src/src/cli/commands, src/src/cli/shell/command_handler.py *)

\* Bound of the prompt-loop model
MaxLines == 2        \* reads of the prompt in one behaviour

\* An input line is the sequence of its whitespace-separated tokens
\* (at most a name and an argument text)
InputLines ==
    {<<>>, <<"$blank">>, <<"view", "main">>, <<"nosuch">>, <<"exit">>, <<"quit">>,
     <<"bye">>, <<"EXIT">>, <<"exit", "-x">>, <<"exit", "42">>, <<"help">>, <<"custom">>}

\* expand_variables: $blank holds an empty string
ExpandVariables(line) == IF line = <<"$blank">> THEN <<>> ELSE line

\* str.lower() on a command name
Lower(tok) == IF tok = "EXIT" THEN "exit" ELSE tok

\* the registry CommandHandler._load_commands builds (lines 30-58)
DeclarativeCommands == {"exit", "quit", "bye", "help"}
TraditionalCommands == {"custom"}
Commands == DeclarativeCommands \cup TraditionalCommands

\* what a call ends with
Returned(v) == [kind |-> "returned", value |-> v]
Raised(t) == [kind |-> "raised", value |-> t]
NoOutcome == [kind |-> None, value |-> None]
Truthy(v) == v = "True"

\* ExitCommand.execute_command (exit_command.py 31-33) and the bodies of the
\* other commands
ExecuteCommand(name) ==
    IF name \in {"exit", "quit", "bye"}
    THEN {Raised("ShellExit")}
    ELSE {Returned("True"), Returned("False"), Raised("ValueError"), Raised("RuntimeError")}

\* DeclarativeCommand.parse (declarative.py 293-386): an unknown -parameter
\* is a ValueError (line 356)
ParseRaises(name, args) == args = "-x"

\* cls.parse(args) followed by instance.execute_command(shell)
ParseThenExecuteCommand(name, args) ==
    IF ParseRaises(name, args) THEN {Raised("ValueError")} ELSE ExecuteCommand(name)

\* DeclarativeCommand.execute (declarative.py 388-404): except ValueError and
\* except Exception both return False
DeclarativeExecuteCatch(o) == IF o.kind = "raised" THEN Returned("False") ELSE o
DeclarativeExecute(name, args) ==
    {DeclarativeExecuteCatch(o) : o \in ParseThenExecuteCommand(name, args)}

\* BaseCommand.execute of a traditional command
TraditionalExecute(name, args) ==
    {Returned("True"), Returned("False"), Raised("RuntimeError"), Raised("ShellExit")}

\* cmd_instance.execute(cmd_name, cmd_args, shell) (pipeline.py 127)
InstanceExecute(name, args) ==
    IF name \in DeclarativeCommands
    THEN DeclarativeExecute(name, args)
    ELSE TraditionalExecute(name, args)

\* CommandHandler.execute (command_handler.py 75-107): only ValueError is
\* caught, around a declarative command
HandlerExecuteCatch(o) ==
    IF o.kind = "raised" /\ o.value = "ValueError" THEN Returned("False") ELSE o
HandlerExecute(name, args) ==
    IF name \in Commands
    THEN IF name \in DeclarativeCommands
         THEN {HandlerExecuteCatch(o) : o \in ParseThenExecuteCommand(name, args)}
         ELSE TraditionalExecute(name, args)
    ELSE {Returned("False")}

\* the name ServerShell.process_command calls the dispatcher by (shell.py 108)
HandlerExecuteCommand(name, args) == HandlerExecute(name, args)

\* does the call reach execute_command of a declarative command
InvokesExecuteCommand(name, args) ==
    name \in DeclarativeCommands /\ ~ParseRaises(name, args)

----------------------------------------------------------------------------
(* Pipeline: src/src/cli/shell/pipeline.py *)

\* Pipeline.parse_command (lines 36-62)
ParseCommand(line) ==
    IF line = <<>>
    THEN [raised |-> FALSE, commands |-> <<>>]
    ELSE LET cmd_parts == ExpandVariables(line) IN
         IF cmd_parts = <<>>
         THEN [raised |-> TRUE, commands |-> <<>>]
         ELSE [raised |-> FALSE,
               commands |-> <<[name |-> Lower(cmd_parts[1]),
                               args |-> IF Len(cmd_parts) > 1 THEN cmd_parts[2] ELSE ""]>>]

\* Pipeline._handle_view_command (lines 163-196)
HandleViewCommand(line) == Len(line) > 1 /\ Lower(line[1]) = "view"
ViewLogs == {None, "ERROR", "INFO"}

\* the inner handler of a failed command (lines 138-145)
OnCommandException_on_root(t, root, cmd, error_type) ==
    NodeSetError(t, root, error_type, "message")
OnCommandException(t, root, cmd, error_type) ==
    NodeSetError(t, cmd, error_type, "message")

\* Pipeline.__init__ (lines 23-34)
PipeInit ==
    /\ clock = 0
    /\ api_calls = 0
    /\ nodes = <<NewNode(<<"root">>, NoParent)>>
    /\ root_node = 1
    /\ current_node = 1
    /\ p_pc = "idle"
    /\ command_str = <<>>
    /\ cmd_outcome = NoOutcome
    /\ p_raised = None
    /\ execute_command_calls = 0

\* no pipeline is built
PipeIdle ==
    /\ root_node = 0
    /\ current_node = 0
    /\ p_pc = "idle"
    /\ command_str = <<>>
    /\ cmd_outcome = NoOutcome
    /\ p_raised = None
    /\ execute_command_calls = 0

PipeFrame == UNCHANGED <<discVars, clock, api_calls, extVars>>

\* execute is entered (lines 86-88)
ExecuteEnter(line) ==
    /\ nodes' = <<NewNode(line, NoParent)>>
    /\ root_node' = 1
    /\ current_node' = 1
    /\ command_str' = line
    /\ cmd_outcome' = NoOutcome
    /\ p_raised' = None
    /\ p_pc' = "parse"

\* parsing, the early returns and the start of the command (lines 90-120)
PipeDispatch ==
    /\ PipeFrame
    /\ p_pc = "parse"
    /\ \E view_log \in ViewLogs :
        LET parsed == ParseCommand(command_str) IN
        IF parsed.raised
        THEN /\ nodes' = NodeSetError(nodes, root_node, "IndexError", "message")
             /\ p_pc' = "returned"
             /\ UNCHANGED current_node
        ELSE IF parsed.commands = <<>>
        THEN /\ nodes' = NodeComplete(NodeAddLog(nodes, root_node, "INFO"), root_node, TRUE)
             /\ p_pc' = "returned"
             /\ UNCHANGED current_node
        ELSE IF HandleViewCommand(command_str)
        THEN /\ nodes' = NodeComplete(IF view_log = None THEN nodes
                                      ELSE NodeAddLog(nodes, root_node, view_log),
                                      root_node, TRUE)
             /\ p_pc' = "returned"
             /\ UNCHANGED current_node
        ELSE IF parsed.commands[1].name \notin Commands
        THEN /\ nodes' = NodeComplete(NodeAddLog(NodeAddLog(nodes, root_node, "ERROR"),
                                                 root_node, "INFO"),
                                      root_node, FALSE)
             /\ p_pc' = "returned"
             /\ UNCHANGED current_node
        ELSE /\ nodes' = NodeStart(NodeCreateChild(nodes, root_node, ExpandVariables(command_str)),
                                   Len(nodes) + 1)
             /\ current_node' = Len(nodes) + 1
             /\ p_pc' = "in_command"
    /\ UNCHANGED <<command_str, root_node, cmd_outcome, p_raised, execute_command_calls>>
    /\ UNCHANGED shellVars

\* the command runs and its node is closed (lines 122-145)
PipeCommand ==
    /\ PipeFrame
    /\ p_pc = "in_command"
    /\ LET cmd == ParseCommand(command_str).commands[1] IN
       /\ \E outcome \in InstanceExecute(cmd.name, cmd.args) :
            /\ cmd_outcome' = outcome
            /\ IF outcome.kind = "returned"
               THEN /\ nodes' = NodeComplete(nodes, current_node, Truthy(outcome.value))
                    /\ p_pc' = "loop_end"
                    /\ UNCHANGED p_raised
               ELSE IF outcome.value = "ShellExit"
               THEN /\ nodes' = NodeComplete(NodeAddLog(nodes, current_node, "INFO"),
                                             current_node, TRUE)
                    /\ p_pc' = "raised"
                    /\ p_raised' = "ShellExit"
               ELSE /\ nodes' = OnCommandException(nodes, root_node, current_node, outcome.value)
                    /\ p_pc' = "returned"
                    /\ UNCHANGED p_raised
       /\ execute_command_calls' =
            IF InvokesExecuteCommand(cmd.name, cmd.args)
            THEN execute_command_calls + 1 ELSE execute_command_calls
    /\ UNCHANGED <<command_str, root_node, current_node>>
    /\ UNCHANGED shellVars

\* all commands completed (line 148) and the root is returned (line 161)
PipeFinish ==
    /\ PipeFrame
    /\ p_pc = "loop_end"
    /\ nodes' = NodeComplete(nodes, root_node, TRUE)
    /\ p_pc' = "returned"
    /\ UNCHANGED <<command_str, root_node, current_node, cmd_outcome, p_raised,
                   execute_command_calls>>
    /\ UNCHANGED shellVars

----------------------------------------------------------------------------
(* Prompt loops: src/src/cli/shell/shell.py, src/src/cli/views/simple_view.py *)

Hosts == {"ServerShell", "SimpleView"}

\* main() has not returned
NotReturned == -1

\* ServerShell.__init__ (shell.py 21-53); a view holds the shell and its pipeline
ShellInit ==
    /\ host \in Hosts
    /\ running = FALSE
    /\ sh_pc = "stopped"
    /\ lines_read = 0
    /\ last_input = <<>>
    /\ sh_error = None
    /\ last_event = None
    /\ exit_code = NotReturned

\* no prompt loop is built
ShellIdle ==
    /\ host = "ServerShell"
    /\ running = FALSE
    /\ sh_pc = "stopped"
    /\ lines_read = 0
    /\ last_input = <<>>
    /\ sh_error = None
    /\ last_event = None
    /\ exit_code = NotReturned

ShellFrame == UNCHANGED <<discVars, clock, api_calls, extVars>>

\* the except clauses of run (shell.py 81-96, simple_view.py 95-110): what
\* the loop does with an exception raised in its body
RunHandler_interrupt_exits(exc) ==
    IF exc \in {"KeyboardInterrupt", "EOFError", "ShellExit"}
    THEN [running |-> FALSE, sh_pc |-> "exited", printed |-> None]
    ELSE [running |-> TRUE, sh_pc |-> "prompt", printed |-> exc]
RunHandler_fatal(exc) ==
    IF exc = "KeyboardInterrupt"
    THEN [running |-> TRUE, sh_pc |-> "prompt", printed |-> None]
    ELSE [running |-> FALSE, sh_pc |-> "exited",
          printed |-> IF exc \in {"EOFError", "ShellExit"} THEN None ELSE exc]
RunHandler(exc) ==
    IF exc = "KeyboardInterrupt"
    THEN [running |-> TRUE, sh_pc |-> "prompt", printed |-> None]
    ELSE IF exc \in {"EOFError", "ShellExit"}
    THEN [running |-> FALSE, sh_pc |-> "exited", printed |-> None]
    ELSE [running |-> TRUE, sh_pc |-> "prompt", printed |-> exc]

\* run() is entered (shell.py 61-69, simple_view.py 75-83)
ShellRun ==
    /\ ShellFrame
    /\ sh_pc = "stopped"
    /\ running' = TRUE
    /\ sh_pc' = "prompt"
    /\ UNCHANGED <<host, lines_read, last_input, sh_error, last_event, exit_code,
                   nodes, pipeVars>>

\* session.prompt returns a line; a blank line is skipped (shell.py 72-76)
ReadLine(line) ==
    /\ ShellFrame
    /\ sh_pc = "prompt"
    /\ running
    /\ lines_read < MaxLines
    /\ lines_read' = lines_read + 1
    /\ last_input' = line
    /\ last_event' = "line"
    /\ sh_error' = None
    /\ sh_pc' = IF line = <<>> THEN "prompt" ELSE "process"
    /\ UNCHANGED <<host, running, exit_code, nodes, pipeVars>>

\* session.prompt raises: Ctrl+C (shell.py 81-83) or Ctrl+D (shell.py 84-88)
ReadRaises(exc) ==
    /\ ShellFrame
    /\ sh_pc = "prompt"
    /\ running
    /\ lines_read < MaxLines
    /\ lines_read' = lines_read + 1
    /\ last_event' = exc
    /\ sh_error' = RunHandler(exc).printed
    /\ running' = RunHandler(exc).running
    /\ sh_pc' = RunHandler(exc).sh_pc
    /\ UNCHANGED <<host, last_input, exit_code, nodes, pipeVars>>

ReadKeyboardInterrupt == ReadRaises("KeyboardInterrupt")
ReadEOF == ReadRaises("EOFError")

\* ServerShell.process_command (shell.py 98-108) and the handlers of run
\* (shell.py 89-96)
ServerProcessCommand ==
    /\ ShellFrame
    /\ host = "ServerShell"
    /\ sh_pc = "process"
    /\ LET cmd_parts == ExpandVariables(last_input) IN
       IF cmd_parts = <<>>
       THEN /\ sh_error' = RunHandler("IndexError").printed
            /\ running' = RunHandler("IndexError").running
            /\ sh_pc' = RunHandler("IndexError").sh_pc
            /\ UNCHANGED execute_command_calls
       ELSE LET cmd_name == Lower(cmd_parts[1])
                cmd_args == IF Len(cmd_parts) > 1 THEN cmd_parts[2] ELSE ""
            IN /\ execute_command_calls' =
                    IF cmd_name \in Commands /\ InvokesExecuteCommand(cmd_name, cmd_args)
                    THEN 1 ELSE 0
               /\ \E outcome \in HandlerExecuteCommand(cmd_name, cmd_args) :
                    IF outcome.kind = "returned"
                    THEN /\ sh_pc' = "prompt"
                         /\ UNCHANGED <<running, sh_error>>
                    ELSE /\ sh_error' = RunHandler(outcome.value).printed
                         /\ running' = RunHandler(outcome.value).running
                         /\ sh_pc' = RunHandler(outcome.value).sh_pc
    /\ UNCHANGED <<host, lines_read, last_input, last_event, exit_code, nodes>>
    /\ UNCHANGED <<p_pc, command_str, root_node, current_node, cmd_outcome, p_raised>>

\* BaseView.process_command calls shell.pipeline.execute (base_view.py 220)
ViewProcessCommand ==
    /\ ShellFrame
    /\ host = "SimpleView"
    /\ sh_pc = "process"
    /\ ExecuteEnter(last_input)
    /\ execute_command_calls' = 0
    /\ sh_pc' = "in_pipeline"
    /\ UNCHANGED <<host, running, lines_read, last_input, sh_error, last_event, exit_code>>

\* execute is left: the root is returned to the view (base_view.py 223-228)
\* or ShellExit reaches run (simple_view.py 103-107)
ViewProcessReturn ==
    /\ ShellFrame
    /\ sh_pc = "in_pipeline"
    /\ p_pc \in {"returned", "raised"}
    /\ IF p_pc = "raised"
       THEN /\ running' = RunHandler(p_raised).running
            /\ sh_pc' = RunHandler(p_raised).sh_pc
            /\ sh_error' = RunHandler(p_raised).printed
       ELSE /\ sh_pc' = "prompt"
            /\ UNCHANGED <<running, sh_error>>
    /\ p_pc' = "idle"
    /\ UNCHANGED <<host, lines_read, last_input, last_event, exit_code, nodes>>
    /\ UNCHANGED <<command_str, root_node, current_node, cmd_outcome, p_raised,
                   execute_command_calls>>

\* shell.run() has returned to main, which returns 0 (main.py 48-52)
MainReturn ==
    /\ ShellFrame
    /\ host = "ServerShell"
    /\ sh_pc = "exited"
    /\ exit_code' = 0
    /\ sh_pc' = "main_returned"
    /\ UNCHANGED <<host, running, lines_read, last_input, sh_error, last_event,
                   nodes, pipeVars>>

ShellNext ==
    \/ ShellRun
    \/ \E line \in InputLines : ReadLine(line)
    \/ ReadKeyboardInterrupt
    \/ ReadEOF
    \/ ServerProcessCommand
    \/ ViewProcessCommand
    \/ PipeDispatch
    \/ PipeCommand
    \/ PipeFinish
    \/ ViewProcessReturn
    \/ MainReturn

----------------------------------------------------------------------------
(* Update-info tree, pipeline and prompt loop: properties *)

IsTerminal(n) == nodes[n].status \in TerminalStatuses
HasError(n) == nodes[n].error # NoErrorInfo

\* C6: after any sequence of start, complete, cancel, set_error, add_log,
\* add_output and create_child_node calls, every node has its end_time set
\* if and only if its status is completed, failed or cancelled.
C6_EndTimeIffTerminal ==
    \A n \in NodeIds : (nodes[n].end_time # NoTime) <=> IsTerminal(n)

C9_ErrorOnRoot ==
    (/\ p_pc = "returned"
     /\ cmd_outcome.kind = "raised"
     /\ cmd_outcome.value # "ShellExit") =>
        /\ nodes[root_node].error = ErrorInfo(cmd_outcome.value, "message")
        /\ nodes[root_node].status = "failed"

\* the lines that name the exit command
ExitInputs == {<<"exit">>, <<"quit">>, <<"bye">>, <<"EXIT">>}

\* C10: once the user has entered exit, quit or bye, the prompt loop is never
\* again at the prompt with that line as its last input: ShellExit ends the
\* loop before another line is read.
C10_ExitEndsLoop ==
    last_input \in ExitInputs => ~(sh_pc = "prompt" /\ running)

\* the integer an argument text denotes
IntOf(args) == IF args = "42" THEN 42 ELSE 0

\* the prompt loop has ended
LoopEnded == ~running /\ sh_pc \in {"exited", "main_returned"}

\* C27: every call of Pipeline.execute that returns gives back a root node
\* in a terminal status with end_time set - for empty input, view commands,
\* unknown commands, commands that succeed and commands that raise alike.
C27_ReturnedRootTerminal ==
    p_pc = "returned" =>
        /\ IsTerminal(root_node)
        /\ nodes[root_node].end_time # NoTime

\* C28: the root node Pipeline.execute returns has status completed only if
\* every command node beneath it has status completed; a dispatched command
\* that returned false or raised never leaves the root completed.
C28_RootCompletedOnlyIfChildren ==
    (p_pc = "returned" /\ nodes[root_node].status = "completed") =>
        \A n \in DOMAIN nodes :
            nodes[n].parent = root_node => nodes[n].status = "completed"

\* C11: when the last line entered was exit n and main has returned, the value
\* main returned is n.
C11_ExitCodeCarried ==
    (/\ sh_pc = "main_returned"
     /\ last_event = "line"
     /\ Len(last_input) = 2
     /\ Lower(last_input[1]) = "exit") =>
        exit_code = IntOf(last_input[2])

\* processing the line last read raised an exception other than ShellExit
LineRaised ==
    /\ last_event = "line"
    /\ \/ sh_error # None
       \/ /\ host = "SimpleView"
          /\ sh_pc # "process"
          /\ p_pc \in {"returned", "idle"}
          /\ \/ cmd_outcome.kind = "raised" /\ cmd_outcome.value # "ShellExit"
             \/ HasError(root_node)

\* C12: an exception other than ShellExit raised while the last line was
\* processed leaves the prompt loop running, on its way to or at the prompt.
C12_ExceptionKeepsLoop ==
    LineRaised => running /\ sh_pc \in {"in_pipeline", "prompt"}

\* the loop printed an exception and is back at the prompt, free to read again
C12_Witness ==
    /\ sh_error = "RuntimeError"
    /\ running
    /\ sh_pc = "prompt"
    /\ lines_read < MaxLines

\* C13 as stated: after end-of-input or an interrupt at the prompt the loop
\* has ended.
C13_EofOrInterruptEndsLoop ==
    last_event \in {"EOFError", "KeyboardInterrupt"} => LoopEnded

\* C13 as the code has it: end-of-input ends the loop with nothing printed as
\* an error; an interrupt at the prompt is dropped and the loop stays running
\* at the prompt.
C13_EofEndsLoopInterruptContinues ==
    /\ last_event = "EOFError" => LoopEnded /\ sh_error = None
    /\ last_event = "KeyboardInterrupt" => running /\ sh_pc = "prompt" /\ sh_error = None

\* an interrupt was read and the loop can read again
C13_Witness ==
    /\ last_event = "KeyboardInterrupt"
    /\ running
    /\ sh_pc = "prompt"
    /\ lines_read < MaxLines

----------------------------------------------------------------------------
(* Variable manager: src/src/cli/shell/variable_manager.py *)

\* Bound of the variable-manager model
MaxVmCalls == 2      \* calls on the manager in one behaviour

VarNames == {"servers", "cleanup_days", "x"}

\* Python objects: what kind of value, and its text or items
IntVal(text) == [kind |-> "int", items |-> <<text>>]
StrVal(text) == [kind |-> "str", items |-> <<text>>]
ListVal(items) == [kind |-> "list", items |-> items]
NoneVal == [kind |-> "none", items |-> <<>>]
Unbound == [kind |-> "unbound", items |-> <<>>]

\* the None singleton is the first object; 0 stands for "no such name"
NoneRef == 1
NoRef == 0

\* the expressions a caller passes, by what eval does with them
Lit(v) == [op |-> "lit", name |-> None, arg |-> v]
VarRef(n) == [op |-> "var", name |-> n, arg |-> NoneVal]
AppendCall(n, v) == [op |-> "append", name |-> n, arg |-> v]
PopCall(n) == [op |-> "pop", name |-> n, arg |-> NoneVal]
Walrus(n, v) == [op |-> "walrus", name |-> n, arg |-> v]
BadSyntax == [op |-> "syntax", name |-> None, arg |-> NoneVal]
Expressions ==
    {Lit(StrVal("8080")), Lit(StrVal("not_an_int")), BadSyntax, Walrus("x", IntVal("1"))}
    \cup {VarRef(n) : n \in VarNames}
    \cup {AppendCall(n, StrVal("s")) : n \in VarNames}
    \cup {PopCall(n) : n \in VarNames}

TypeHints == {None, "int", "str"}

\* what eval ends with: the exception or the object it returns, and the heap
\* it leaves behind
EvalRaised(t, heap) == [raised |-> t, ref |-> NoRef, heap |-> heap]
EvalResult(ref, heap) == [raised |-> None, ref |-> ref, heap |-> heap]

\* VariableManager.evaluate_expression (lines 122-152): eval_locals is a
\* shallow copy of the table, so the evaluator sees the table's own objects
EvaluateExpression(expr, table, heap) ==
    IF expr.op = "syntax" THEN EvalRaised("SyntaxError", heap)
    ELSE IF expr.op \in {"lit", "walrus"}
    THEN EvalResult(Len(heap) + 1, Append(heap, expr.arg))
    ELSE IF table[expr.name] = NoRef THEN EvalRaised("ValueError", heap)
    ELSE IF expr.op = "var" THEN EvalResult(table[expr.name], heap)
    ELSE IF heap[table[expr.name]].kind # "list" THEN EvalRaised("ValueError", heap)
    ELSE IF expr.op = "append"
    THEN EvalResult(NoneRef,
                    [heap EXCEPT ![table[expr.name]].items = Append(@, expr.arg.items[1])])
    ELSE IF heap[table[expr.name]].items = <<>> THEN EvalRaised("ValueError", heap)
    ELSE LET items == heap[table[expr.name]].items
             popped == [heap EXCEPT ![table[expr.name]].items = SubSeq(items, 1, Len(items) - 1)]
         IN EvalResult(Len(heap) + 1, Append(popped, StrVal(items[Len(items)])))

\* TypeConverter.convert (utils/type_converter.py 15-108): through str(value)
IntegerTexts == {"8080", "1", "30"}
ConvertRaises(v, type_hint) ==
    /\ v.kind # "none"
    /\ type_hint = "int"
    /\ ~(v.kind \in {"int", "str"} /\ v.items[1] \in IntegerTexts)
Convert(v, type_hint) ==
    IF v.kind = "none" THEN v
    ELSE IF type_hint = "int" THEN IntVal(v.items[1])
    ELSE IF v.kind = "list" THEN StrVal("list") ELSE StrVal(v.items[1])

\* the commit of set (line 119): which object the name is bound to
SetCommits(evaluated, v, type_hint) ==
    evaluated.raised = None /\ (type_hint = None \/ ~ConvertRaises(v, type_hint))

\* what each name of the table holds, by content
TableContent ==
    [n \in VarNames |-> IF vm_table[n] = NoRef THEN Unbound ELSE vm_heap[vm_table[n]]]

NoCall == [op |-> None, raised |-> None]

\* VariableManager.__init__ (lines 15-31)
VmInit ==
    /\ vm_heap = <<NoneVal, ListVal(<<"server1", "server2", "production", "staging">>),
                   IntVal("30")>>
    /\ vm_table = [n \in VarNames |->
                     IF n = "servers" THEN 2 ELSE IF n = "cleanup_days" THEN 3 ELSE NoRef]
    /\ vm_last = NoCall
    /\ vm_calls = 0

VmIdle == VmInit

VmFrame == UNCHANGED <<coreVars, storeVars, declVars, parserVars, blockVars, expandVars, viewVars, lexVars>>

\* VariableManager.evaluate_expression (lines 122-152)
VmEvaluateExpression(expr) ==
    /\ VmFrame
    /\ vm_calls < MaxVmCalls
    /\ vm_calls' = vm_calls + 1
    /\ LET evaluated == EvaluateExpression(expr, vm_table, vm_heap) IN
       /\ vm_heap' = evaluated.heap
       /\ vm_last' = [op |-> "evaluate_expression", raised |-> evaluated.raised]
    /\ UNCHANGED vm_table

\* VariableManager.set (lines 75-120)
VmSet(name, expr, type_hint) ==
    /\ VmFrame
    /\ vm_calls < MaxVmCalls
    /\ vm_calls' = vm_calls + 1
    /\ LET evaluated == EvaluateExpression(expr, vm_table, vm_heap)
           v == IF evaluated.raised = None THEN evaluated.heap[evaluated.ref] ELSE NoneVal
       IN IF SetCommits(evaluated, v, type_hint)
          THEN /\ IF type_hint = None
                  THEN /\ vm_heap' = evaluated.heap
                       /\ vm_table' = [vm_table EXCEPT ![name] = evaluated.ref]
                  ELSE /\ vm_heap' = Append(evaluated.heap, Convert(v, type_hint))
                       /\ vm_table' = [vm_table EXCEPT ![name] = Len(evaluated.heap) + 1]
               /\ vm_last' = [op |-> "set", raised |-> None]
          ELSE /\ vm_heap' = evaluated.heap
               /\ UNCHANGED vm_table
               /\ vm_last' = [op |-> "set",
                              raised |-> IF evaluated.raised # None
                                         THEN evaluated.raised ELSE "ValueError"]

\* VariableManager.delete (lines 154-167)
VmDelete(name) ==
    /\ VmFrame
    /\ vm_calls < MaxVmCalls
    /\ vm_calls' = vm_calls + 1
    /\ vm_table' = [vm_table EXCEPT ![name] = NoRef]
    /\ vm_last' = [op |-> "delete", raised |-> None]
    /\ UNCHANGED vm_heap

VmNext ==
    \/ \E expr \in Expressions : VmEvaluateExpression(expr)
    \/ \E name \in VarNames, expr \in Expressions, type_hint \in TypeHints :
            VmSet(name, expr, type_hint)
    \/ \E name \in VarNames : VmDelete(name)

\* C14: a call of evaluate_expression, whether it returns or raises, leaves
\* every variable with the same binding and the same value content.
C14_EvaluateLeavesTable ==
    [][vm_last'.op = "evaluate_expression" =>
        vm_table' = vm_table /\ TableContent' = TableContent]_vars

\* C15: a call of set that raises (evaluation or type coercion failed) leaves
\* the variable table, bindings and value content, exactly as it was.
C15_SetAllOrNothing ==
    [][(vm_last'.op = "set" /\ vm_last'.raised # None) =>
        vm_table' = vm_table /\ TableContent' = TableContent]_vars

----------------------------------------------------------------------------
(* Config store and endpoints: src/src/cli/targeting *)

\* Bound of the targeting model
MaxStoreCalls == 3   \* calls on the store and its endpoints in one behaviour

SystemNames == {"web1", "db1"}

\* ConnectionStatus (config_models.py 8-13)
ConnectionStatuses == {"disconnected", "connecting", "connected", "error"}

\* the fields ServerEndpoint declares (config_models.py 61-68)
EndpointFields ==
    {"hostname", "port", "credentials", "connection_status", "last_connected",
     "error_message"}

\* assignment to an attribute of a pydantic model: a name that is not a
\* declared field is refused with ValueError
SetAttrRaises_any_attribute(field) == FALSE
SetAttrRaises(field) == field \notin EndpointFields

\* a ConfigSystem: its name and the state of its endpoint
\* (agent: does the endpoint hold a RemoteAgent)
System(name, status) ==
    [name |-> name, connection_status |-> status, error_message |-> None, agent |-> FALSE]

\* ConfigStore.parse_obj (config_store.py 49): any mapping of keys to systems
\* validates; nothing compares a key with the name stored under it
Documents ==
    UNION {[keys -> {System(n, st) : n \in SystemNames, st \in ConnectionStatuses}] :
           keys \in SUBSET SystemNames}

NoStoreCall == [op |-> None, raised |-> None]
TgIdlePc == [op |-> None, key |-> None, at |-> None]

\* ConfigStoreManager.__init__ / _load_configuration (config_store.py 24-56)
StoreInit ==
    /\ store_systems \in Documents
    /\ tg_pc = TgIdlePc
    /\ tg_last = NoStoreCall
    /\ tg_calls = 0

\* the store of a shell whose configuration file does not exist
StoreIdle ==
    /\ store_systems = <<>>
    /\ tg_pc = TgIdlePc
    /\ tg_last = NoStoreCall
    /\ tg_calls = 0

StoreFrame == UNCHANGED <<coreVars, vmVars, declVars, parserVars, blockVars, expandVars, viewVars, lexVars>>

\* a new call starts
StoreCall ==
    /\ StoreFrame
    /\ tg_pc = TgIdlePc
    /\ tg_calls < MaxStoreCalls
    /\ tg_calls' = tg_calls + 1

\* ConfigStore.add_system (config_models.py 351-368)
AddSystemAccepts(systems, system) == system.name \notin DOMAIN systems
AddSystem(system) ==
    /\ StoreCall
    /\ IF AddSystemAccepts(store_systems, system)
       THEN /\ store_systems' =
                    [k \in DOMAIN store_systems \cup {system.name} |->
                        IF k = system.name THEN system ELSE store_systems[k]]
            /\ tg_last' = [op |-> "add_system", raised |-> None]
       ELSE /\ UNCHANGED store_systems
            /\ tg_last' = [op |-> "add_system", raised |-> "ValueError"]
    /\ UNCHANGED tg_pc

\* ConfigStoreManager.create_system (config_store.py 73-127)
CreateSystem(name) ==
    /\ StoreCall
    /\ LET system == System(name, "disconnected") IN
       IF AddSystemAccepts(store_systems, system)
       THEN /\ store_systems' =
                    [k \in DOMAIN store_systems \cup {name} |->
                        IF k = name THEN system ELSE store_systems[k]]
            /\ tg_last' = [op |-> "create_system", raised |-> None]
       ELSE /\ UNCHANGED store_systems
            /\ tg_last' = [op |-> "create_system", raised |-> "ValueError"]
    /\ UNCHANGED tg_pc

\* ConfigStore.remove_system (config_models.py 370-383)
RemoveSystem(name) ==
    /\ StoreCall
    /\ store_systems' = [k \in DOMAIN store_systems \ {name} |-> store_systems[k]]
    /\ tg_last' = [op |-> "remove_system", raised |-> None]
    /\ UNCHANGED tg_pc

\* ServerEndpoint.connect, line 85
ConnectBegin(k) ==
    /\ StoreCall
    /\ k \in DOMAIN store_systems
    /\ store_systems' = [store_systems EXCEPT ![k].connection_status = "connecting"]
    /\ tg_pc' = [op |-> "connect", key |-> k, at |-> "create"]
    /\ UNCHANGED tg_last

\* ServerEndpoint.connect, lines 89-93: the agent exists, the status is set
ConnectCreate ==
    /\ StoreFrame
    /\ tg_pc.op = "connect" /\ tg_pc.at = "create"
    /\ store_systems' = [store_systems EXCEPT ![tg_pc.key].connection_status = "connected",
                                              ![tg_pc.key].error_message = None]
    /\ tg_pc' = [tg_pc EXCEPT !.at = "attach"]
    /\ UNCHANGED <<tg_last, tg_calls>>

\* ServerEndpoint.connect, lines 94-100: self.agent = agent, return or except
ConnectAttach ==
    /\ StoreFrame
    /\ tg_pc.op = "connect" /\ tg_pc.at = "attach"
    /\ IF SetAttrRaises("agent")
       THEN /\ store_systems' = [store_systems EXCEPT ![tg_pc.key].connection_status = "error",
                                                      ![tg_pc.key].error_message = "ValueError"]
            /\ tg_last' = [op |-> "connect", raised |-> "ValueError"]
       ELSE /\ store_systems' = [store_systems EXCEPT ![tg_pc.key].agent = TRUE]
            /\ tg_last' = [op |-> "connect", raised |-> None]
    /\ tg_pc' = TgIdlePc
    /\ UNCHANGED tg_calls

\* RemoteAgent.disconnect of an agent of endpoint k, lines 56-57
DisconnectBegin(k) ==
    /\ StoreCall
    /\ k \in DOMAIN store_systems
    /\ store_systems' = [store_systems EXCEPT ![k].connection_status = "disconnected"]
    /\ tg_pc' = [op |-> "disconnect", key |-> k, at |-> "clear"]
    /\ UNCHANGED tg_last

\* RemoteAgent.disconnect, line 58: self.endpoint.agent = None
DisconnectClear ==
    /\ StoreFrame
    /\ tg_pc.op = "disconnect" /\ tg_pc.at = "clear"
    /\ IF SetAttrRaises("agent")
       THEN /\ UNCHANGED store_systems
            /\ tg_last' = [op |-> "disconnect", raised |-> "ValueError"]
       ELSE /\ store_systems' = [store_systems EXCEPT ![tg_pc.key].agent = FALSE]
            /\ tg_last' = [op |-> "disconnect", raised |-> None]
    /\ tg_pc' = TgIdlePc
    /\ UNCHANGED tg_calls

StoreNext ==
    \/ \E n \in SystemNames, st \in ConnectionStatuses : AddSystem(System(n, st))
    \/ \E n \in SystemNames : CreateSystem(n)
    \/ \E n \in SystemNames : RemoveSystem(n)
    \/ \E k \in SystemNames : ConnectBegin(k)
    \/ ConnectCreate
    \/ ConnectAttach
    \/ \E k \in SystemNames : DisconnectBegin(k)
    \/ DisconnectClear

\* C16: in every state of a store - after loading a document and any calls of
\* add_system, remove_system and create_system - each key of store.systems
\* is the name of the system stored under it.
C16_KeyIsName ==
    \A k \in DOMAIN store_systems : store_systems[k].name = k

----------------------------------------------------------------------------
(* Declarative commands: src/src/cli/commands/declarative.py *)

\* Bound of the declarative model
MaxParams == 2   \* parameters a command class declares

\* Parameter.position is None (declarative.py 50)
NoPosition == -1
\* the sort key of a parameter without position (line 289)
NoPositionKey == 999

ExplicitPositions == {0, 1}
ParamNames == <<"a", "b", "c", "d">>

\* a declared parameter: Parameter(position=..., mandatory=...) or a plain
\* annotation (no position; mandatory because it has no default)
Declarations ==
    [position : ExplicitPositions \cup {NoPosition}, mandatory : BOOLEAN]

RECURSIVE SeqsUpTo(_, _)
SeqsUpTo(S, n) ==
    IF n = 0 THEN {<<>>}
    ELSE SeqsUpTo(S, n - 1) \cup
         {Append(q, x) : q \in {r \in SeqsUpTo(S, n - 1) : Len(r) = n - 1}, x \in S}

\* command classes whose explicit positions are all different
CommandClasses ==
    {ds \in SeqsUpTo(Declarations, MaxParams) :
        \A i, j \in DOMAIN ds :
            (i # j /\ ds[i].position # NoPosition) => ds[i].position # ds[j].position}

\* ParameterDefinition.__init__ (lines 81-135)
ParameterDefinition(name, decl) ==
    [name |-> name, position |-> decl.position, mandatory |-> decl.mandatory]

\* the loop of get_parameter_definitions (lines 263-286)
RECURSIVE AssignPositions(_, _, _)
AssignPositions(decls, i, positional_index) ==
    IF i > Len(decls) THEN <<>>
    ELSE LET param_def == ParameterDefinition(ParamNames[i], decls[i]) IN
         IF param_def.position = NoPosition /\ param_def.mandatory
         THEN <<[param_def EXCEPT !.position = positional_index]>> \o
              AssignPositions(decls, i + 1, positional_index + 1)
         ELSE <<param_def>> \o AssignPositions(decls, i + 1, positional_index)

\* key=lambda param: param.position if param.position is not None else 999
SortKey(param) == IF param.position = NoPosition THEN NoPositionKey ELSE param.position

\* list.sort / sorted: stable, ascending by key
RECURSIVE InsertByKey(_, _)
InsertByKey(sorted, param) ==
    IF sorted = <<>> THEN <<param>>
    ELSE IF SortKey(Head(sorted)) <= SortKey(param)
    THEN <<Head(sorted)>> \o InsertByKey(Tail(sorted), param)
    ELSE <<param>> \o sorted

RECURSIVE SortByPosition(_)
SortByPosition(params) ==
    IF params = <<>> THEN <<>>
    ELSE InsertByKey(SortByPosition(SubSeq(params, 1, Len(params) - 1)),
                     params[Len(params)])

\* DeclarativeCommand.get_parameter_definitions (lines 254-291)
GetParameterDefinitions(decls) == SortByPosition(AssignPositions(decls, 1, 0))

\* argument lists (shlex.split of the argument text): -a, -b, -c name the
\* first, second and third declared parameter, -z names none; 7 converts to
\* the declared type, x does not
ArgLists ==
    {<<>>, <<"7">>, <<"x">>, <<"7", "7">>, <<"-a">>, <<"-a", "7">>, <<"-a", "x">>,
     <<"-z">>, <<"7", "-z">>, <<"-b", "7">>, <<"7", "-b", "7">>, <<"-b", "7", "7">>,
     <<"-a", "7", "-b", "x">>}

\* arg.startswith('-')
StartsWithDash(arg) == arg \in {"-a", "-b", "-c", "-d", "-z"}

\* param.param_name (line 123)
DashName(name) ==
    CASE name = "a" -> "-a" [] name = "b" -> "-b" [] name = "c" -> "-c" [] OTHER -> "-d"

\* param_map (lines 303-306): the spellings that name a parameter
InParamMap(defs, arg) == \E i \in DOMAIN defs : DashName(defs[i].name) = arg
ParamMap(defs, arg) == CHOOSE i \in DOMAIN defs : DashName(defs[i].name) = arg

\* ParameterDefinition.convert_value (lines 136-180); no parameter of the
\* model has a default
ConvertValueRaises(param, value_str) ==
    IF value_str = "" THEN param.mandatory ELSE value_str = "x"

ParseOk(provided) == [raised |-> None, why |-> None, provided |-> provided]
ParseError(why, provided) == [raised |-> "ValueError", why |-> why, provided |-> provided]

\* first pass of parse (lines 327-359): named parameters
RECURSIVE FirstPass(_, _, _, _)
FirstPass(defs, args, i, provided) ==
    IF i > Len(args) THEN ParseOk(provided)
    ELSE IF StartsWithDash(args[i])
    THEN IF InParamMap(defs, args[i])
         THEN LET param == defs[ParamMap(defs, args[i])]
                  has_value == i + 1 <= Len(args) /\ ~StartsWithDash(args[i + 1])
                  value_str == IF has_value THEN args[i + 1] ELSE ""
                  now == provided \cup {param.name}
              IN  IF ConvertValueRaises(param, value_str)
                  THEN ParseError("conversion", now)
                  ELSE FirstPass(defs, args, IF has_value THEN i + 2 ELSE i + 1, now)
         ELSE ParseError("unknown", provided)
    ELSE FirstPass(defs, args, i + 1, provided)

\* args.index(arg): the first occurrence
IndexOf(args, arg) == CHOOSE i \in DOMAIN args : args[i] = arg /\ \A j \in 1..(i - 1) : args[j] # arg

\* positional_values (lines 362-364)
RECURSIVE PositionalValues(_, _, _)
PositionalValues(defs, args, i) ==
    IF i > Len(args) THEN <<>>
    ELSE LET arg == args[i]
             at == IndexOf(args, arg)
             is_value == at > 1 /\ StartsWithDash(args[at - 1]) /\ InParamMap(defs, args[at - 1])
         IN  IF ~StartsWithDash(arg) /\ ~is_value
             THEN <<arg>> \o PositionalValues(defs, args, i + 1)
             ELSE PositionalValues(defs, args, i + 1)

\* positional_params (lines 309-312)
PositionalParams(defs) ==
    SortByPosition(SelectSeq(defs, LAMBDA param : param.position # NoPosition))

\* second pass of parse (lines 366-377): extra values are ignored
RECURSIVE SecondPass(_, _, _, _)
SecondPass(positional_params, values, i, provided) ==
    IF i > Len(values) THEN ParseOk(provided)
    ELSE IF i <= Len(positional_params)
    THEN LET param == positional_params[i] IN
         IF param.name \notin provided
         THEN IF ConvertValueRaises(param, values[i])
              THEN ParseError("conversion", provided \cup {param.name})
              ELSE SecondPass(positional_params, values, i + 1, provided \cup {param.name})
         ELSE SecondPass(positional_params, values, i + 1, provided)
    ELSE SecondPass(positional_params, values, i + 1, provided)

\* the mandatory parameters of a command class
Mandatory(defs) == {defs[i].name : i \in {j \in DOMAIN defs : defs[j].mandatory}}

\* defaults (lines 379-384): a mandatory parameter not provided is an error
Defaults(defs, provided) ==
    IF Mandatory(defs) \subseteq provided
    THEN ParseOk(provided) ELSE ParseError("missing", provided)

\* DeclarativeCommand.parse (lines 293-386)
Parse(decls, args) ==
    LET defs == GetParameterDefinitions(decls)
        first == FirstPass(defs, args, 1, {})
    IN  IF first.raised # None THEN first
        ELSE LET second == SecondPass(PositionalParams(defs),
                                      PositionalValues(defs, args, 1), 1, first.provided)
             IN  IF second.raised # None THEN second
                 ELSE Defaults(defs, second.provided)

\* try: instance = parse(args); return instance.execute_command(shell)
\* (declarative.py 393-398, command_handler.py 90-96): where control goes
\* after parse
AfterParse_ignores_error(outcome) == "execute_command"
AfterParse(outcome) == IF outcome.raised = None THEN "execute_command" ELSE "caught"

Dispatchers == {"DeclarativeCommand.execute", "CommandHandler.execute"}
NoDefs == [called |-> FALSE, defs |-> <<>>]
NoParse == [raised |-> None, why |-> None, provided |-> {}]

DeclInit ==
    /\ param_decls \in CommandClasses
    /\ dc_args \in ArgLists
    /\ param_defs = NoDefs
    /\ dc_path = None
    /\ dc_pc = "idle"
    /\ dc_parse = NoParse
    /\ dc_calls = 0
    /\ dc_result = NoOutcome

DeclIdle ==
    /\ param_decls = <<>>
    /\ dc_args = <<>>
    /\ param_defs = NoDefs
    /\ dc_path = None
    /\ dc_pc = "idle"
    /\ dc_parse = NoParse
    /\ dc_calls = 0
    /\ dc_result = NoOutcome

DeclFrame == UNCHANGED <<coreVars, vmVars, storeVars, parserVars, blockVars, expandVars, viewVars, lexVars>>

\* cls.get_parameter_definitions() called on its own (help, completion)
DcGetParameterDefinitions ==
    /\ DeclFrame
    /\ dc_pc = "idle"
    /\ ~param_defs.called
    /\ param_defs' = [called |-> TRUE, defs |-> GetParameterDefinitions(param_decls)]
    /\ UNCHANGED <<param_decls, dc_args, dc_path, dc_pc, dc_parse, dc_calls, dc_result>>

\* the command is dispatched with the argument text
DcDispatch(path) ==
    /\ DeclFrame
    /\ dc_pc = "idle"
    /\ dc_path' = path
    /\ dc_pc' = "parse"
    /\ UNCHANGED <<param_decls, param_defs, dc_args, dc_parse, dc_calls, dc_result>>

\* instance = cls.parse(args)
DcParse ==
    /\ DeclFrame
    /\ dc_pc = "parse"
    /\ dc_parse' = Parse(param_decls, dc_args)
    /\ dc_pc' = AfterParse(dc_parse')
    /\ UNCHANGED <<param_decls, param_defs, dc_args, dc_path, dc_calls, dc_result>>

\* return instance.execute_command(shell), through the dispatcher's except clauses
DcExecuteCommand ==
    /\ DeclFrame
    /\ dc_pc = "execute_command"
    /\ dc_calls' = dc_calls + 1
    /\ \E o \in ExecuteCommand("help") :
         dc_result' = IF dc_path = "DeclarativeCommand.execute"
                      THEN DeclarativeExecuteCatch(o) ELSE HandlerExecuteCatch(o)
    /\ dc_pc' = "returned"
    /\ UNCHANGED <<param_decls, param_defs, dc_args, dc_path, dc_parse>>

\* except ValueError around parse: print the error, return False
DcCaught ==
    /\ DeclFrame
    /\ dc_pc = "caught"
    /\ dc_result' = Returned("False")
    /\ dc_pc' = "returned"
    /\ UNCHANGED <<param_decls, param_defs, dc_args, dc_path, dc_parse, dc_calls>>

DeclNext ==
    \/ DcGetParameterDefinitions
    \/ \E path \in Dispatchers : DcDispatch(path)
    \/ DcParse
    \/ DcExecuteCommand
    \/ DcCaught

\* C18: the parameter definitions get_parameter_definitions returns give
\* each positional index to at most one parameter, for every command class
\* that mixes explicit positions with auto-assigned mandatory parameters.
C18_PositionalIndexUnique ==
    param_defs.called =>
        \A i, j \in DOMAIN param_defs.defs :
            (i # j /\ param_defs.defs[i].position # NoPosition) =>
                param_defs.defs[i].position # param_defs.defs[j].position

\* C19: when one dispatch of a declarative command has returned,
\* execute_command was invoked exactly once if parsing the arguments bound
\* every mandatory parameter, and not at all if parsing failed (unknown
\* parameter, missing mandatory parameter, conversion error).
C19_ExecuteCommandOnceIffParsed ==
    dc_pc = "returned" =>
        LET outcome == Parse(param_decls, dc_args) IN
        IF outcome.raised = None
        THEN /\ Mandatory(GetParameterDefinitions(param_decls)) \subseteq outcome.provided
             /\ dc_calls = 1
        ELSE /\ outcome.why \in {"unknown", "missing", "conversion"}
             /\ dc_calls = 0

\* a dispatch that bound a mandatory parameter and ran the command
C19_Witness ==
    /\ dc_pc = "returned"
    /\ dc_parse.raised = None
    /\ Mandatory(GetParameterDefinitions(param_decls)) # {}
    /\ dc_calls = 1

----------------------------------------------------------------------------
(* Script lexer and parser: src/src/cli/engine/parser.py *)

\* Bounds of the parser model
MaxTextLines == 2         \* lines of a generated script
MaxLoopIterations == 4    \* iterations of the loop of Parser.parse that are followed

\* max_iterations of _parse_indented_block (line 562)
MaxBlockIterations == 1000

Tok(type, value) == [type |-> type, value |-> value]
NoToken == Tok(None, None)

\* the tokens the patterns of the lexer (lines 96-137) give for the text of a line
LineTokens(kind) ==
    CASE kind = "help" -> <<Tok("COMMAND", "help")>>
      [] kind = "help -v" -> <<Tok("COMMAND", "help"), Tok("PARAMETER", "-v")>>
      [] kind = "help:" -> <<Tok("COMMAND", "help"), Tok("COLON", ":")>>
      [] kind = "-v" -> <<Tok("PARAMETER", "-v")>>
      [] kind = "parallel:" -> <<Tok("KEYWORD", "parallel"), Tok("COLON", ":")>>
      [] kind = "parallel" -> <<Tok("KEYWORD", "parallel")>>
      [] kind = "foreach $s in $all:" ->
            <<Tok("KEYWORD", "foreach"), Tok("VARIABLE", "s"), Tok("KEYWORD", "in"),
              Tok("VARIABLE", "all"), Tok("COLON", ":")>>
      [] kind = "try:" -> <<Tok("KEYWORD", "try"), Tok("COLON", ":")>>
      [] kind = "catch:" -> <<Tok("KEYWORD", "catch"), Tok("COLON", ":")>>
      [] kind = "$x = 1" -> <<Tok("VARIABLE", "x"), Tok("ASSIGNMENT", "="), Tok("NUMBER", "1")>>
      [] kind = "$x" -> <<Tok("VARIABLE", "x")>>
      [] OTHER -> <<Tok("NUMBER", "1")>>

Line(indent, kind) == [indent |-> indent, kind |-> kind]

\* generated scripts: every line is one of these texts at column 0 or 2
GeneratedKinds ==
    {"help", "help:", "-v", "parallel:", "foreach $s in $all:", "try:", "$x = 1", "1"}
GeneratedLines == {Line(n, k) : n \in {0, 2}, k \in GeneratedKinds}

\* longer scripts
ExtraTexts ==
    {<<Line(0, "try:"), Line(2, "help"), Line(0, "catch:"), Line(2, "help -v")>>,
     <<Line(0, "foreach $s in $all:"), Line(2, "parallel:"), Line(4, "help"), Line(0, "help")>>,
     <<Line(0, "parallel:"), Line(4, "help"), Line(2, "help")>>,
     <<Line(0, "parallel"), Line(0, "$x"), Line(0, "help -v")>>,
     <<Line(0, "parallel:"), Line(2, "1"), Line(2, "-v")>>}

Texts == SeqsUpTo(GeneratedLines, MaxTextLines) \cup ExtraTexts

LexOk(stack, tokens) == [stack |-> stack, tokens |-> tokens, raised |-> FALSE]
LexError == [stack |-> <<>>, tokens |-> <<>>, raised |-> TRUE]

\* the while loop of _process_indentation (lines 205-211)
RECURSIVE Dedent(_, _, _)
Dedent(stack, indent_size, tokens) ==
    IF indent_size < stack[Len(stack)]
    THEN LET popped == SubSeq(stack, 1, Len(stack) - 1) IN
         IF indent_size > popped[Len(popped)]
         THEN LexError
         ELSE Dedent(popped, indent_size, Append(tokens, Tok("DEDENT", "")))
    ELSE LexOk(stack, tokens)

\* Lexer._process_indentation (lines 183-215)
ProcessIndentation_no_indent_token(stack, indent_size) ==
    IF indent_size > stack[Len(stack)]
    THEN LexOk(Append(stack, indent_size), <<>>)
    ELSE IF indent_size < stack[Len(stack)]
    THEN Dedent(stack, indent_size, <<>>)
    ELSE LexOk(stack, <<>>)
ProcessIndentation(stack, indent_size) ==
    IF indent_size > stack[Len(stack)]
    THEN LexOk(Append(stack, indent_size), <<Tok("INDENT", "")>>)
    ELSE IF indent_size < stack[Len(stack)]
    THEN Dedent(stack, indent_size, <<>>)
    ELSE LexOk(stack, <<>>)

\* the DEDENT tokens added at the end (lines 293-295)
RECURSIVE RemainingDedents(_)
RemainingDedents(stack) ==
    IF Len(stack) > 1
    THEN <<Tok("DEDENT", "")>> \o RemainingDedents(SubSeq(stack, 1, Len(stack) - 1))
    ELSE <<>>

\* one pass of the for loop of Lexer.tokenize (lines 230-287): a blank line
\* is skipped, a comment line gives one COMMENT token, and neither reaches
\* _process_indentation
TokenizeLine(stack, line) ==
    IF line.kind = ""
    THEN LexOk(stack, <<>>)
    ELSE IF line.kind = "# c"
    THEN LexOk(stack, <<Tok("COMMENT", "# c")>>)
    ELSE LET ind == ProcessIndentation(stack, line.indent) IN
         IF ind.raised THEN LexError
         ELSE LexOk(ind.stack, ind.tokens \o LineTokens(line.kind) \o <<Tok("NEWLINE", "")>>)

\* the end of Lexer.tokenize (lines 293-298): the stack is popped down to
\* its base frame, one DEDENT per pop, then EOF
TokenizeEnd(stack, result) ==
    LexOk(SubSeq(stack, 1, 1), result \o RemainingDedents(stack) \o <<Tok("EOF", "")>>)

\* the loop of Lexer.tokenize over the lines (lines 230-298)
RECURSIVE TokenizeLines(_, _, _, _)
TokenizeLines(text, i, stack, result) ==
    IF i > Len(text)
    THEN TokenizeEnd(stack, result)
    ELSE LET ln == TokenizeLine(stack, text[i]) IN
         IF ln.raised THEN LexError
         ELSE TokenizeLines(text, i + 1, ln.stack, result \o ln.tokens)

\* Lexer.tokenize (lines 217-300)
Tokenize(text) == TokenizeLines(text, 1, <<0>>, <<>>)

\* Parser._peek (lines 322-326); pos counts from 0
Peek(tokens, pos) == IF pos < Len(tokens) THEN tokens[pos + 1] ELSE NoToken

\* Parser._match (lines 335-348): the position after the call
Match(tokens, pos, type) == IF Peek(tokens, pos).type = type THEN pos + 1 ELSE pos

\* while self._match(TokenType.NEWLINE): pass
RECURSIVE SkipNewlines(_, _)
SkipNewlines(tokens, pos) ==
    IF Peek(tokens, pos).type = "NEWLINE" THEN SkipNewlines(tokens, pos + 1) ELSE pos

\* while self._peek() and self._peek().type not in stop: self._advance()
RECURSIVE AdvanceUntil(_, _, _)
AdvanceUntil(tokens, pos, stop) ==
    IF Peek(tokens, pos) # NoToken /\ Peek(tokens, pos).type \notin stop
    THEN AdvanceUntil(tokens, pos + 1, stop)
    ELSE pos

\* how a parsing method ends: the position, whether it returned a statement,
\* whether it raised ValueError
Ret(pos, stmt) == [pos |-> pos, stmt |-> stmt, raised |-> FALSE]
RaisedAt(pos) == [pos |-> pos, stmt |-> FALSE, raised |-> TRUE]

\* Parser._parse_expression (lines 660-675)
ParseExpression(tokens, pos) == AdvanceUntil(tokens, pos, {"NEWLINE", "COLON", "EOF"})

\* Parser._parse_command_statement (lines 596-635)
ParseCommandStatement(tokens, pos) ==
    IF Peek(tokens, pos).type = "COMMAND"
    THEN Ret(AdvanceUntil(tokens, pos + 1, {"NEWLINE", "EOF"}), TRUE)
    ELSE IF Peek(tokens, pos).type = "PARAMETER"
    THEN RaisedAt(AdvanceUntil(tokens, pos + 1, {"NEWLINE", "EOF"}))
    ELSE Ret(pos, FALSE)

\* the end of _parse_statement (lines 461-476): a command statement, or skip
\* one unexpected token that is not NEWLINE, DEDENT or EOF
SkipUnexpected(tokens, pos) ==
    IF Peek(tokens, pos) # NoToken /\ Peek(tokens, pos).type \notin {"NEWLINE", "DEDENT", "EOF"}
    THEN pos + 1 ELSE pos

CommandOrSkip(tokens, pos) ==
    LET cmd == ParseCommandStatement(tokens, pos) IN
    IF cmd.raised \/ cmd.stmt THEN cmd
    ELSE Ret(SkipUnexpected(tokens, pos), FALSE)

RECURSIVE ParseStatement(_, _)
RECURSIVE ParseIndentedBlock(_, _)
RECURSIVE BlockLoop(_, _, _)

\* Parser._parse_foreach_statement (lines 478-510), after 'foreach'
ParseForeachStatement(tokens, pos) ==
    IF Peek(tokens, pos).type # "VARIABLE" THEN RaisedAt(pos)
    ELSE IF Peek(tokens, pos + 1).type # "KEYWORD" THEN RaisedAt(pos + 1)
    ELSE IF Peek(tokens, pos + 1).value # "in" THEN RaisedAt(pos + 2)
    ELSE LET after == ParseExpression(tokens, pos + 2) IN
         IF Peek(tokens, after).type # "COLON" THEN RaisedAt(after)
         ELSE ParseIndentedBlock(tokens, after + 1)

\* Parser._parse_try_catch_statement (lines 512-541), after 'try'
ParseTryCatchStatement(tokens, pos) ==
    IF Peek(tokens, pos).type # "COLON" THEN RaisedAt(pos)
    ELSE LET try_block == ParseIndentedBlock(tokens, pos + 1) IN
         IF try_block.raised THEN try_block
         ELSE IF Peek(tokens, try_block.pos).type # "KEYWORD" THEN RaisedAt(try_block.pos)
         ELSE IF Peek(tokens, try_block.pos + 1).type # "COLON"
         THEN RaisedAt(try_block.pos + 1)
         ELSE ParseIndentedBlock(tokens, try_block.pos + 2)

\* _parse_statement from the command introducer on (lines 450-476)
FromCommand(tokens, pos) ==
    IF Peek(tokens, pos).type = "COMMAND" /\ Peek(tokens, pos + 1).type = "COLON"
    THEN ParseIndentedBlock(tokens, pos + 2)
    ELSE CommandOrSkip(tokens, pos)

\* _parse_statement from the keyword on (lines 434-476)
FromKeyword(tokens, pos) ==
    IF Peek(tokens, pos).type = "KEYWORD"
    THEN IF Peek(tokens, pos).value = "foreach" THEN ParseForeachStatement(tokens, pos + 1)
         ELSE IF Peek(tokens, pos).value = "try" THEN ParseTryCatchStatement(tokens, pos + 1)
         ELSE IF Peek(tokens, pos + 1).type = "COLON" THEN ParseIndentedBlock(tokens, pos + 2)
         ELSE FromCommand(tokens, pos + 1)
    ELSE FromCommand(tokens, pos)

\* Parser._parse_statement (lines 409-476)
ParseStatement(tokens, pos) ==
    IF Peek(tokens, pos) = NoToken THEN Ret(pos, FALSE)
    ELSE IF Peek(tokens, pos).type = "VARIABLE"
    THEN IF Peek(tokens, pos + 1).type = "ASSIGNMENT"
         THEN Ret(ParseExpression(tokens, pos + 2), TRUE)
         ELSE FromKeyword(tokens, pos + 1)
    ELSE FromKeyword(tokens, pos)

\* the while loop of _parse_indented_block (lines 565-588)
BlockLoop(tokens, pos, iteration_count) ==
    IF Peek(tokens, pos) = NoToken \/ Peek(tokens, pos).type \in {"DEDENT", "EOF"}
    THEN Ret(pos, TRUE)
    ELSE IF iteration_count + 1 > MaxBlockIterations THEN RaisedAt(pos)
    ELSE LET at == SkipNewlines(tokens, pos) IN
         IF Peek(tokens, at) # NoToken /\ Peek(tokens, at).type \notin {"DEDENT", "EOF"}
         THEN LET stmt == ParseStatement(tokens, at) IN
              IF stmt.raised THEN stmt
              ELSE IF stmt.stmt THEN BlockLoop(tokens, stmt.pos, iteration_count + 1)
              ELSE BlockLoop(tokens,
                             Match(tokens,
                                   AdvanceUntil(tokens, stmt.pos, {"NEWLINE", "DEDENT", "EOF"}),
                                   "NEWLINE"),
                             iteration_count + 1)
         ELSE BlockLoop(tokens, at, iteration_count + 1)

\* Parser._parse_indented_block (lines 543-594)
ParseIndentedBlock(tokens, pos) ==
    IF Peek(tokens, pos).type # "NEWLINE" THEN RaisedAt(pos)
    ELSE IF Peek(tokens, pos + 1).type # "INDENT" THEN RaisedAt(pos + 1)
    ELSE LET body == BlockLoop(tokens, pos + 2, 0) IN
         IF body.raised THEN body
         ELSE Ret(Match(tokens, body.pos, "DEDENT"), TRUE)

\* Lexer(text).tokenize() and Parser(tokens), about to call parse()
ParserInit ==
    /\ ps_text \in {t \in Texts : ~Tokenize(t).raised}
    /\ ps_tokens = Tokenize(ps_text).tokens
    /\ ps_pos = 0
    /\ ps_pc = "loop"
    /\ ps_iterations = 0

ParserIdle ==
    /\ ps_text = <<>>
    /\ ps_tokens = <<>>
    /\ ps_pos = 0
    /\ ps_pc = "idle"
    /\ ps_iterations = 0

ParserFrame == UNCHANGED <<coreVars, vmVars, storeVars, declVars, blockVars, expandVars, viewVars, lexVars>>

\* one iteration of the while loop of Parser.parse (lines 397-405)
ParseLoop ==
    /\ ParserFrame
    /\ ps_pc = "loop"
    /\ ps_iterations < MaxLoopIterations
    /\ Peek(ps_tokens, ps_pos) # NoToken /\ Peek(ps_tokens, ps_pos).type # "EOF"
    /\ ps_iterations' = ps_iterations + 1
    /\ LET at == SkipNewlines(ps_tokens, ps_pos) IN
       IF Peek(ps_tokens, at) # NoToken /\ Peek(ps_tokens, at).type # "EOF"
       THEN LET stmt == ParseStatement(ps_tokens, at) IN
            /\ ps_pos' = stmt.pos
            /\ ps_pc' = IF stmt.raised THEN "raised" ELSE "loop"
       ELSE /\ ps_pos' = at
            /\ ps_pc' = "loop"
    /\ UNCHANGED <<ps_text, ps_tokens>>

\* the loop condition fails: return block (line 407)
ParseReturn ==
    /\ ParserFrame
    /\ ps_pc = "loop"
    /\ Peek(ps_tokens, ps_pos) = NoToken \/ Peek(ps_tokens, ps_pos).type = "EOF"
    /\ ps_pc' = "returned"
    /\ UNCHANGED <<ps_text, ps_tokens, ps_pos, ps_iterations>>

ParserNext ==
    \/ ParseLoop
    \/ ParseReturn

\* C20: Parser.parse terminates on every token stream of the lexer: every
\* iteration of its loop ends with the parser past at least one more token
\* (or with the ValueError that ends parse), so the loop cannot go on for ever.
C20_EveryIterationAdvances ==
    [][ps_iterations' > ps_iterations => (ps_pos' > ps_pos \/ ps_pc' = "raised")]_vars

----------------------------------------------------------------------------
(* Code blocks: src/src/cli/engine/statements.py *)

\* Bound of the code-block model
MaxStatements == 3   \* statements of a block

BlockTypes == {None, "sequential", "parallel"}
StatementResults == {"result1", "result2", None}

\* result = statement.execute(executor) (line 278): the value kept
LoopResult_keeps_first(result, returned) == IF result = None THEN returned ELSE result
LoopResult(result, returned) == returned

BlockInit ==
    /\ cb_statements \in 0..MaxStatements
    /\ cb_block_type \in BlockTypes
    /\ cb_pc = "idle"
    /\ cb_i = 1
    /\ cb_started = <<>>
    /\ cb_returns = <<>>
    /\ cb_result = None

BlockIdle ==
    /\ cb_statements = 0
    /\ cb_block_type = None
    /\ cb_pc = "idle"
    /\ cb_i = 1
    /\ cb_started = <<>>
    /\ cb_returns = <<>>
    /\ cb_result = None

BlockFrame == UNCHANGED <<coreVars, vmVars, storeVars, declVars, parserVars, expandVars, viewVars, lexVars>>

\* CodeBlock.execute is entered (lines 272-277): a parallel block is handed
\* to executor.execute_parallel, any other block starts the for loop
CbExecute ==
    /\ BlockFrame
    /\ cb_pc = "idle"
    /\ cb_pc' = IF cb_block_type = "parallel" THEN "delegated" ELSE "loop"
    /\ UNCHANGED <<cb_statements, cb_block_type, cb_i, cb_started, cb_returns, cb_result>>

\* the for loop calls statement.execute(executor) of the next statement
CbStatementCall ==
    /\ BlockFrame
    /\ cb_pc = "loop"
    /\ cb_i <= cb_statements
    /\ cb_started' = Append(cb_started, cb_i)
    /\ cb_pc' = "in_statement"
    /\ UNCHANGED <<cb_statements, cb_block_type, cb_i, cb_returns, cb_result>>

\* the statement returns and its result is assigned (line 278)
CbStatementReturn(returned) ==
    /\ BlockFrame
    /\ cb_pc = "in_statement"
    /\ cb_returns' = Append(cb_returns, returned)
    /\ cb_result' = LoopResult(cb_result, returned)
    /\ cb_i' = cb_i + 1
    /\ cb_pc' = "loop"
    /\ UNCHANGED <<cb_statements, cb_block_type, cb_started>>

\* the statement raises: the exception leaves execute
CbStatementRaise ==
    /\ BlockFrame
    /\ cb_pc = "in_statement"
    /\ cb_pc' = "raised"
    /\ UNCHANGED <<cb_statements, cb_block_type, cb_i, cb_started, cb_returns, cb_result>>

\* the loop is exhausted: return result (line 279)
CbReturn ==
    /\ BlockFrame
    /\ cb_pc = "loop"
    /\ cb_i > cb_statements
    /\ cb_pc' = "returned"
    /\ UNCHANGED <<cb_statements, cb_block_type, cb_i, cb_started, cb_returns, cb_result>>

BlockNext ==
    \/ CbExecute
    \/ CbStatementCall
    \/ \E returned \in StatementResults : CbStatementReturn(returned)
    \/ CbStatementRaise
    \/ CbReturn

\* C21: executing a block that is not parallel calls its statements one at
\* a time in list order - the k-th call is of the k-th statement, and a call
\* is made only after the previous one has returned - and when execute
\* returns, every statement was called exactly once and the value returned
\* is the result of the last statement.
C21_SequentialInOrder ==
    cb_block_type # "parallel" =>
        /\ \A k \in DOMAIN cb_started : cb_started[k] = k
        /\ Len(cb_started) - Len(cb_returns) \in {0, 1}
        /\ cb_pc = "returned" =>
             /\ Len(cb_started) = cb_statements
             /\ Len(cb_returns) = cb_statements
             /\ cb_statements > 0 => cb_result = cb_returns[cb_statements]

\* a block of several statements has returned, the last statement's result
\* differing from the one before
C21_Witness ==
    /\ cb_block_type # "parallel"
    /\ cb_pc = "returned"
    /\ cb_statements >= 2
    /\ cb_returns[cb_statements] # cb_returns[cb_statements - 1]

----------------------------------------------------------------------------
(* expand_variables: src/src/cli/shell/variable_manager.py *)

\* Bound of the expansion model
MaxChars == 5   \* characters of a text

\* the characters of a text; the variable table binds x to 3 and does not
\* bind n
Chars == {"$", "{", "}", "x", "n", "3"}
Letters == {"x", "n"}
NameChars == {"x", "n", "3"}

ExprOk(out) == [ok |-> TRUE, out |-> out]
ExprFails == [ok |-> FALSE, out |-> <<>>]

\* str(self.evaluate_expression(expr)) (lines 199-201): over these
\* characters an expression evaluates when it is the bound name or an
\* integer literal
EvaluateText(expr) ==
    IF expr = <<"x">> THEN ExprOk(<<"3">>)
    ELSE IF \A i \in DOMAIN expr : expr[i] = "3" THEN ExprOk(expr)
    ELSE ExprFails

\* the first } at or after position i, 0 if there is none
FirstClose(text, i) ==
    IF \E j \in i..Len(text) : text[j] = "}"
    THEN CHOOSE j \in i..Len(text) : text[j] = "}" /\ \A k \in i..(j - 1) : text[k] # "}"
    ELSE 0

\* does \${([^}]+)} match at position i; the match ends at FirstClose
ComplexAt(text, i) ==
    /\ i + 1 <= Len(text)
    /\ text[i] = "$"
    /\ text[i + 1] = "{"
    /\ FirstClose(text, i + 2) > i + 2

\* replace_complex (lines 194-204): the result, or the original text
ReplaceComplex(text, i, close) ==
    LET value == EvaluateText(SubSeq(text, i + 2, close - 1)) IN
    IF value.ok THEN value.out ELSE SubSeq(text, i, close)

\* re.sub(r'\${([^}]+)}', replace_complex, text) (line 207)
RECURSIVE SubComplex(_, _)
SubComplex(text, i) ==
    IF i > Len(text) THEN <<>>
    ELSE IF ComplexAt(text, i)
    THEN ReplaceComplex(text, i, FirstClose(text, i + 2)) \o
         SubComplex(text, FirstClose(text, i + 2) + 1)
    ELSE <<text[i]>> \o SubComplex(text, i + 1)

\* the longest run of name characters from position i on
RECURSIVE NameRun(_, _)
NameRun(text, i) ==
    IF i <= Len(text) /\ text[i] \in NameChars THEN 1 + NameRun(text, i + 1) ELSE 0

\* the name (?<!\\)\$([a-zA-Z_][a-zA-Z0-9_]*)(?!\{) matches after the $ at
\* position i: the longest run not followed by {, one character shorter when
\* the run is followed by {; 0 when there is no match
SimpleNameLen(text, i) ==
    IF text[i] = "$" /\ i + 1 <= Len(text) /\ text[i + 1] \in Letters
    THEN LET run == NameRun(text, i + 1) IN
         IF i + run + 1 <= Len(text) /\ text[i + run + 1] = "{" THEN run - 1 ELSE run
    ELSE 0

\* replace_simple (lines 210-213): the value, or the reference as it was
ReplaceSimple(name) == IF name = <<"x">> THEN <<"3">> ELSE <<"$">> \o name

\* re.sub of the $name pattern (line 216)
RECURSIVE SubSimple(_, _)
SubSimple(text, i) ==
    IF i > Len(text) THEN <<>>
    ELSE IF SimpleNameLen(text, i) > 0
    THEN ReplaceSimple(SubSeq(text, i + 1, i + SimpleNameLen(text, i))) \o
         SubSimple(text, i + SimpleNameLen(text, i) + 1)
    ELSE <<text[i]>> \o SubSimple(text, i + 1)

\* VariableManager.expand_variables (lines 178-219)
ExpandText(text) == SubSimple(SubComplex(text, 1), 1)

\* the ${expr} of the text whose evaluation fails
RECURSIVE FailedExpressions(_, _)
FailedExpressions(text, i) ==
    IF i > Len(text) THEN {}
    ELSE IF ComplexAt(text, i)
    THEN (IF EvaluateText(SubSeq(text, i + 2, FirstClose(text, i + 2) - 1)).ok
          THEN {} ELSE {SubSeq(text, i, FirstClose(text, i + 2))})
         \cup FailedExpressions(text, FirstClose(text, i + 2) + 1)
    ELSE FailedExpressions(text, i + 1)

\* piece occurs in text, character for character
OccursIn(piece, text) ==
    \E k \in 0..(Len(text) - Len(piece)) : SubSeq(text, k + 1, k + Len(piece)) = piece

ExpandInit ==
    /\ ex_text \in SeqsUpTo(Chars, MaxChars)
    /\ ex_pc = "idle"
    /\ ex_result = <<>>

ExpandIdle ==
    /\ ex_text = <<>>
    /\ ex_pc = "idle"
    /\ ex_result = <<>>

ExpandFrame == UNCHANGED <<coreVars, vmVars, storeVars, declVars, parserVars, blockVars, viewVars, lexVars>>

\* vm.expand_variables(text)
ExpandVariablesCall ==
    /\ ExpandFrame
    /\ ex_pc = "idle"
    /\ ex_result' = ExpandText(ex_text)
    /\ ex_pc' = "returned"
    /\ UNCHANGED ex_text

ExpandNext == ExpandVariablesCall

\* C23: every ${expr} of the text whose evaluation fails occurs in the
\* result of expand_variables character for character as it was in the
\* text.
C23_FailedExpressionKept ==
    ex_pc = "returned" =>
        \A piece \in FailedExpressions(ex_text, 1) : OccursIn(piece, ex_result)

----------------------------------------------------------------------------
(* View manager: src/src/cli/shell/view_manager.py *)

\* Bound of the view-manager model
MaxViewCalls == 4   \* switch_to and go_back calls

\* len(self.view_history) > 10 (line 71)
HistoryLimit == 10

\* the registry: two view classes, and one name registered with no class
\* (view_registry.py:49, get_view_class line 62)
RegisteredViews == [simple |-> "class", table |-> "class", classless |-> None]
AvailableViews == DOMAIN RegisteredViews
\* the names a caller asks for; "ghost" is not registered
ViewNames == AvailableViews \cup {"ghost"}

\* what building the view does: view_class(self.shell) and setup() (lines 82-85)
ViewOutcomes == {"ok", "init_raises", "setup_raises"}

NoSwitch == [via |-> None, view_name |-> None, current |-> None, history |-> <<>>, ret |-> None]

\* ten switches between two views have filled the history
FullHistory == [i \in 1..HistoryLimit |-> IF i % 2 = 1 THEN "table" ELSE "simple"]

\* __init__ (lines 27-32), and a manager whose history is at its limit
ViewInit ==
    /\ \/ /\ vw_current = None
          /\ vw_history = <<>>
          /\ vw_instances = {}
       \/ /\ vw_current = "table"
          /\ vw_history = FullHistory
          /\ vw_instances = {"simple", "table"}
    /\ vw_calls = 0
    /\ vw_last = NoSwitch

\* no view manager is built
ViewIdle ==
    /\ vw_current = None
    /\ vw_history = <<>>
    /\ vw_instances = {}
    /\ vw_calls = 0
    /\ vw_last = NoSwitch

ViewFrame == UNCHANGED <<coreVars, vmVars, storeVars, declVars, parserVars, blockVars, expandVars, lexVars>>

\* Track view history (lines 66-72)
TrackHistory(current, history) ==
    IF current # None
    THEN LET appended == Append(history, current)
         IN  IF Len(appended) > HistoryLimit THEN Tail(appended) ELSE appended
    ELSE history

\* switch_to (lines 42-93) on a manager with the given fields; the cleanup
\* of the current view (lines 59-64) changes no field of the manager and its
\* exception is swallowed
SwitchTo(current, history, instances, view_name, outcome) ==
    IF view_name \notin AvailableViews
    THEN [current |-> current, history |-> history, instances |-> instances, ret |-> "False"]
    ELSE IF current = view_name
    THEN [current |-> current, history |-> history, instances |-> instances, ret |-> "True"]
    ELSE LET tracked == TrackHistory(current, history)
         IN  IF view_name \in instances
             THEN [current |-> view_name, history |-> tracked, instances |-> instances, ret |-> "True"]
             ELSE IF RegisteredViews[view_name] = None
             THEN [current |-> current, history |-> tracked, instances |-> instances, ret |-> "False"]
             ELSE IF outcome = "init_raises"
             THEN [current |-> current, history |-> tracked, instances |-> instances, ret |-> "False"]
             ELSE IF outcome = "setup_raises"
             THEN [current |-> current, history |-> tracked,
                   instances |-> instances \cup {view_name}, ret |-> "False"]
             ELSE [current |-> view_name, history |-> tracked,
                   instances |-> instances \cup {view_name}, ret |-> "True"]

SwitchRecord(via, view_name, current, history, ret) ==
    [via |-> via, view_name |-> view_name, current |-> current, history |-> history, ret |-> ret]

\* view_manager.switch_to(view_name)
SwitchToCall(view_name, outcome) ==
    /\ ViewFrame
    /\ vw_calls < MaxViewCalls
    /\ LET r == SwitchTo(vw_current, vw_history, vw_instances, view_name, outcome)
       IN  /\ vw_current' = r.current
           /\ vw_history' = r.history
           /\ vw_instances' = r.instances
           /\ vw_last' = SwitchRecord("switch_to", view_name, vw_current, vw_history, r.ret)
    /\ vw_calls' = vw_calls + 1

\* view_manager.go_back() (lines 105-115)
GoBackCall(outcome) ==
    /\ ViewFrame
    /\ vw_calls < MaxViewCalls
    /\ IF vw_history = <<>>
       THEN UNCHANGED <<vw_current, vw_history, vw_instances, vw_last>>
       ELSE LET previous_view == vw_history[Len(vw_history)]
                popped == SubSeq(vw_history, 1, Len(vw_history) - 1)
                r == SwitchTo(vw_current, popped, vw_instances, previous_view, outcome)
            IN  /\ vw_current' = r.current
                /\ vw_history' = r.history
                /\ vw_instances' = r.instances
                /\ vw_last' = SwitchRecord("go_back", previous_view, vw_current, popped, r.ret)
    /\ vw_calls' = vw_calls + 1

ViewNext ==
    \/ \E view_name \in ViewNames, outcome \in ViewOutcomes : SwitchToCall(view_name, outcome)
    \/ \E outcome \in ViewOutcomes : GoBackCall(outcome)

\* C29: when switch_to returns False, current_view and view_history are
\* what they were when it was called.
C29_FailedSwitchChangesNothing ==
    vw_last.ret = "False" =>
        /\ vw_current = vw_last.current
        /\ vw_history = vw_last.history

----------------------------------------------------------------------------
(* Lexer.tokenize line by line: src/src/cli/engine/parser.py *)

\* Bound of the lexer model
MaxLexLines == 4   \* lines of a text

\* the lines of a text: a command at column 0, 2 or 4, and blank and comment
\* lines, which the lexer passes over whatever their column
LexLineSet ==
    {Line(n, "help") : n \in {0, 2, 4}} \cup {Line(n, k) : n \in {0, 4}, k \in {"", "# c"}}
LexTexts == SeqsUpTo(LexLineSet, MaxLexLines)

\* Lexer.__init__ (lines 83-94)
LexerInit ==
    /\ lx_text \in LexTexts
    /\ lx_line = 1
    /\ lx_stack = <<0>>
    /\ lx_result = <<>>
    /\ lx_pc = "lines"

\* no lexer is built
LexerIdle ==
    /\ lx_text = <<>>
    /\ lx_line = 1
    /\ lx_stack = <<0>>
    /\ lx_result = <<>>
    /\ lx_pc = "idle"

LexerFrame == UNCHANGED <<coreVars, vmVars, storeVars, declVars, parserVars, blockVars, expandVars, viewVars>>

\* one iteration of for i, line in enumerate(lines) (lines 230-287)
LexerLine ==
    /\ LexerFrame
    /\ lx_pc = "lines"
    /\ lx_line <= Len(lx_text)
    /\ LET ln == TokenizeLine(lx_stack, lx_text[lx_line]) IN
       IF ln.raised
       THEN /\ lx_pc' = "raised"
            /\ UNCHANGED <<lx_stack, lx_result>>
       ELSE /\ lx_stack' = ln.stack
            /\ lx_result' = lx_result \o ln.tokens
            /\ lx_pc' = "lines"
    /\ lx_line' = lx_line + 1
    /\ UNCHANGED lx_text

\* after the loop (lines 289-300)
LexerEnd ==
    /\ LexerFrame
    /\ lx_pc = "lines"
    /\ lx_line > Len(lx_text)
    /\ LET end == TokenizeEnd(lx_stack, lx_result) IN
       /\ lx_stack' = end.stack
       /\ lx_result' = end.tokens
    /\ lx_pc' = "returned"
    /\ UNCHANGED <<lx_text, lx_line>>

LexerNext == LexerLine \/ LexerEnd

\* the tokens of one type among the first k tokens
CountType(tokens, k, type) == Cardinality({i \in 1..k : tokens[i].type = type})

\* C30: when tokenize returns, no prefix of the token stream holds more
\* DEDENT than INDENT tokens, the whole stream holds as many of the one as of
\* the other, and indent_stack is back to its single base frame.
C30_IndentDedentBalanced ==
    lx_pc = "returned" =>
        /\ \A k \in 0..Len(lx_result) :
               CountType(lx_result, k, "DEDENT") <= CountType(lx_result, k, "INDENT")
        /\ CountType(lx_result, Len(lx_result), "DEDENT")
               = CountType(lx_result, Len(lx_result), "INDENT")
        /\ lx_stack = <<0>>
        /\ lx_result = Tokenize(lx_text).tokens

\* a text nested two deep whose last line is back at column 0: both DEDENT
\* tokens come from _process_indentation, none from the end of tokenize
C30_Witness ==
    /\ lx_pc = "returned"
    /\ CountType(lx_result, Len(lx_result), "INDENT") = 2
    /\ lx_result[Len(lx_result) - 1].type = "NEWLINE"

----------------------------------------------------------------------------
(* Specifications *)

\* the added components, untouched
ExtIdle == VmIdle /\ StoreIdle /\ DeclIdle /\ ParserIdle /\ BlockIdle /\ ExpandIdle /\ ViewIdle /\ LexerIdle

\* a coordinator alone
InitDiscovery == DiscInit /\ NodeIdle /\ PipeIdle /\ ShellIdle /\ ExtIdle
SpecDiscovery == InitDiscovery /\ [][DiscNext]_vars

\* a node in the hands of a client
InitNode == NodeInit /\ DiscIdle /\ PipeIdle /\ ShellIdle /\ ExtIdle
SpecNode == InitNode /\ [][NodeNext]_vars

\* a prompt loop with its shell and pipeline
InitShell == ShellInit /\ PipeInit /\ DiscIdle /\ ExtIdle
SpecShell == InitShell /\ [][ShellNext]_vars

\* a variable manager in the hands of its callers
InitVars == VmInit /\ DiscIdle /\ NodeIdle /\ PipeIdle /\ ShellIdle /\ StoreIdle /\ DeclIdle /\ ParserIdle /\ BlockIdle /\ ExpandIdle /\ ViewIdle /\ LexerIdle
SpecVars == InitVars /\ [][VmNext]_vars

\* a config store, loaded from its file, and the endpoints of its systems
InitTargeting == StoreInit /\ DiscIdle /\ NodeIdle /\ PipeIdle /\ ShellIdle /\ VmIdle /\ DeclIdle /\ ParserIdle /\ BlockIdle /\ ExpandIdle /\ ViewIdle /\ LexerIdle
SpecTargeting == InitTargeting /\ [][StoreNext]_vars

\* a declarative command class, its parameter definitions and one dispatch
InitDeclarative ==
    DeclInit /\ DiscIdle /\ NodeIdle /\ PipeIdle /\ ShellIdle /\ VmIdle /\ StoreIdle /\ ParserIdle /\ BlockIdle /\ ExpandIdle /\ ViewIdle /\ LexerIdle
SpecDeclarative == InitDeclarative /\ [][DeclNext]_vars

\* a script is tokenized and parsed
InitParser ==
    ParserInit /\ DiscIdle /\ NodeIdle /\ PipeIdle /\ ShellIdle /\ VmIdle /\ StoreIdle /\ DeclIdle /\ BlockIdle /\ ExpandIdle /\ ViewIdle /\ LexerIdle
SpecParser == InitParser /\ [][ParserNext]_vars

\* a code block is executed
InitBlock ==
    BlockInit /\ DiscIdle /\ NodeIdle /\ PipeIdle /\ ShellIdle /\ VmIdle /\ StoreIdle /\ DeclIdle /\ ParserIdle /\ ExpandIdle /\ ViewIdle /\ LexerIdle
SpecBlock == InitBlock /\ [][BlockNext]_vars

\* a text is expanded
InitExpand ==
    ExpandInit /\ DiscIdle /\ NodeIdle /\ PipeIdle /\ ShellIdle /\ VmIdle /\ StoreIdle /\ DeclIdle /\ ParserIdle /\ BlockIdle /\ ViewIdle /\ LexerIdle
SpecExpand == InitExpand /\ [][ExpandNext]_vars

\* a view manager in the hands of its callers
InitViews ==
    ViewInit /\ DiscIdle /\ NodeIdle /\ PipeIdle /\ ShellIdle /\ VmIdle /\ StoreIdle /\ DeclIdle /\ ParserIdle /\ BlockIdle /\ ExpandIdle /\ LexerIdle
SpecViews == InitViews /\ [][ViewNext]_vars

\* a text is tokenized
InitLexer ==
    LexerInit /\ DiscIdle /\ NodeIdle /\ PipeIdle /\ ShellIdle /\ VmIdle /\ StoreIdle /\ DeclIdle /\ ParserIdle /\ BlockIdle /\ ExpandIdle /\ ViewIdle
SpecLexer == InitLexer /\ [][LexerNext]_vars

====
